---- MODULE Spec2Model ----
(***************************************************************************)
(* Little's branch-and-bound for the travelling salesman problem, as       *)
(* implemented by the LittleAlgorithm component (solveTSP and its helpers, *)
(* and the startAlgorithm handler that runs it).                           *)
(*                                                                         *)
(* A matrix is a sequence of rows, each a sequence of numbers.  Cities are *)
(* numbered 0..n-1 as in the source; Cell(m, i, j) reads m[i][j].          *)
(***************************************************************************)
EXTENDS Integers, Sequences, FiniteSets, TLC

\* ------------------------------------------------------------------------
\* Program constants
\* ------------------------------------------------------------------------

\* 1e9: the "forbidden" value of the diagonal, and the initial bestCost
INF == 1000000000

\* -999: the value of an excluded or deleted cell
EXCLUDED == -999

\* solveTSP refuses matrices with fewer rows than this
MIN_CITIES == 3

\* ------------------------------------------------------------------------
\* Bounds of the model
\* ------------------------------------------------------------------------

\* small costs are 1..MaxCost
MaxCost == 2

\* the city manager confirms at most this many cities
MaxCities == 3

\* ------------------------------------------------------------------------
\* Inputs
\* ------------------------------------------------------------------------

SmallCosts == 1 .. MaxCost

\* costs large enough for a bound to reach the initial bestCost of 1e9
LargeCosts == {200000000, 400000000}

\* the 4-city matrix of the documented example
ExampleMatrix ==
    << <<0, 10, 15, 20>>,
       <<10, 0, 35, 25>>,
       <<15, 35, 0, 30>>,
       <<20, 25, 30, 0>> >>

\* a 5-city matrix: with 5 cities the arc blocked by blockSubtours can be
\* the only zero of its row while its column keeps another zero; the large
\* costs keep the search short
FiveCityMatrix ==
    << <<0, 300000000, 500000000, 1, 500000000>>,
       <<500000000, 0, 1, 500000000, 500000000>>,
       <<300000000, 500000000, 0, 500000000, 1>>,
       <<1, 300000000, 500000000, 0, 500000000>>,
       <<1, 2, 1, 300000000, 0>> >>

OffDiagonal(n) == {p \in (1 .. n) \X (1 .. n) : p[1] # p[2]}

\* every n x n matrix with a zero diagonal and the other costs in `costs`
MatricesOver(n, costs) ==
    {[r \in 1 .. n |-> [c \in 1 .. n |-> IF r = c THEN 0 ELSE f[<<r, c>>]]] :
        f \in [OffDiagonal(n) -> costs]}

\* matrices whose costs are far below 1e9
OrdinaryMatrices ==
    MatricesOver(2, SmallCosts) \cup MatricesOver(3, SmallCosts) \cup {ExampleMatrix}

InputMatrices == OrdinaryMatrices \cup MatricesOver(3, LargeCosts) \cup {FiveCityMatrix}

\* ------------------------------------------------------------------------
\* Matrices
\* ------------------------------------------------------------------------

Cities(m) == 0 .. (Len(m) - 1)

Cell(m, i, j) == m[i + 1][j + 1]

\* m with cell (i, j) replaced by v
SetCell(m, i, j, v) ==
    [r \in 1 .. Len(m) |->
        [c \in 1 .. Len(m[r]) |->
            IF r = i + 1 /\ c = j + 1 THEN v ELSE m[r][c]]]

\* matrix.map(row => [...row])
deepCopy(matrix) ==
    [r \in 1 .. Len(matrix) |-> [c \in 1 .. Len(matrix[r]) |-> matrix[r][c]]]

\* the test `x !== 1e9 && x !== -999` of reduceMatrix, negated
IsSentinel(x) == x = INF \/ x = EXCLUDED

\* `let min = 1e9; for (...) if (x < min) min = x` over the values of S
MinFrom(S) ==
    LET T == {x \in S : x < INF}
    IN  IF T = {} THEN INF ELSE CHOOSE x \in T : \A y \in T : x <= y

RECURSIVE SumSeq(_)
SumSeq(s) == IF s = <<>> THEN 0 ELSE Head(s) + SumSeq(Tail(s))

\* ------------------------------------------------------------------------
\* reduceMatrix
\* ------------------------------------------------------------------------

\* the minimum of row i over non-sentinel cells (1e9 when there is none)
RowMin(m, i) ==
    MinFrom({Cell(m, i, j) : j \in {c \in Cities(m) : ~IsSentinel(Cell(m, i, c))}})

\* the minimum of column j over non-sentinel cells (1e9 when there is none)
ColMin(m, j) ==
    MinFrom({Cell(m, i, j) : i \in {r \in Cities(m) : ~IsSentinel(Cell(m, r, j))}})

\* what a row or column with minimum min contributes and has subtracted
Subtracted(min) == IF min # INF /\ min > 0 THEN min ELSE 0

\* the first loop of reduceMatrix: rows are reduced one after the other, and
\* no row reads another
RowReduced(m) ==
    [r \in 1 .. Len(m) |->
        [c \in 1 .. Len(m) |->
            IF IsSentinel(m[r][c]) THEN m[r][c]
            ELSE m[r][c] - Subtracted(RowMin(m, r - 1))]]

\* the second loop of reduceMatrix, on the row-reduced matrix
ColReduced(m) ==
    [r \in 1 .. Len(m) |->
        [c \in 1 .. Len(m) |->
            IF IsSentinel(m[r][c]) THEN m[r][c]
            ELSE m[r][c] - Subtracted(ColMin(m, c - 1))]]

\* a reduction that forgets to skip the -999 cells when it looks for the
\* minimum of a row
RowMinAnyCell(m, i) ==
    MinFrom({Cell(m, i, j) : j \in Cities(m)})

reduceMatrixCountingExcluded(matrix) ==
    LET rowSub == [r \in 1 .. Len(matrix) |->
                      IF RowMinAnyCell(matrix, r - 1) # INF
                      THEN RowMinAnyCell(matrix, r - 1) ELSE 0]
    IN  [matrix    |-> [r \in 1 .. Len(matrix) |->
                          [c \in 1 .. Len(matrix) |->
                              IF IsSentinel(matrix[r][c]) THEN matrix[r][c]
                              ELSE matrix[r][c] - rowSub[r]]],
         reduction |-> SumSeq(rowSub)]

\* a reduction whose column minima are read from the matrix passed in, not
\* from the row-reduced one
reduceMatrixColumnsOfInput(matrix) ==
    LET rows == RowReduced(matrix)
    IN  [matrix    |-> [r \in 1 .. Len(matrix) |->
                          [c \in 1 .. Len(matrix) |->
                              IF IsSentinel(rows[r][c]) THEN rows[r][c]
                              ELSE rows[r][c] - Subtracted(ColMin(matrix, c - 1))]],
         reduction |->
             SumSeq([r \in 1 .. Len(matrix) |-> Subtracted(RowMin(matrix, r - 1))])
             + SumSeq([c \in 1 .. Len(matrix) |-> Subtracted(ColMin(matrix, c - 1))])]

reduceMatrix(matrix) ==
    LET rows == RowReduced(matrix)
        cols == ColReduced(rows)
    IN  [matrix    |-> cols,
         reduction |->
             SumSeq([r \in 1 .. Len(matrix) |-> Subtracted(RowMin(matrix, r - 1))])
           + SumSeq([c \in 1 .. Len(matrix) |-> Subtracted(ColMin(rows, c - 1))])]

\* ------------------------------------------------------------------------
\* calculateRegrets, findMaxRegret
\* ------------------------------------------------------------------------

\* a row minimum that does not leave out column j
RegretRowMinWholeRow(m, i, j) ==
    MinFrom({Cell(m, i, k) : k \in {c \in Cities(m) : Cell(m, i, c) # EXCLUDED}})

\* rowMin of calculateRegrets: over the cells of row i other than column j
\* that are not -999
RegretRowMin(m, i, j) ==
    MinFrom({Cell(m, i, k) : k \in {c \in Cities(m) : c # j /\ Cell(m, i, c) # EXCLUDED}})

RegretColMin(m, i, j) ==
    MinFrom({Cell(m, k, j) : k \in {r \in Cities(m) : r # i /\ Cell(m, r, j) # EXCLUDED}})

calculateRegrets(matrix) ==
    [r \in 1 .. Len(matrix) |->
        [c \in 1 .. Len(matrix) |->
            IF matrix[r][c] = 0
            THEN (IF RegretRowMin(matrix, r - 1, c - 1) = INF THEN 0
                  ELSE RegretRowMin(matrix, r - 1, c - 1))
               + (IF RegretColMin(matrix, r - 1, c - 1) = INF THEN 0
                  ELSE RegretColMin(matrix, r - 1, c - 1))
            ELSE 0]]

\* a scan that lets a later cell of equal regret replace the best one
RECURSIVE ScanMaxRegretLastWins(_, _, _, _)
ScanMaxRegretLastWins(matrix, regrets, k, best) ==
    LET n == Len(matrix)
        i == k \div n
        j == k % n
    IN  IF k >= n * n THEN best
        ELSE IF Cell(matrix, i, j) = 0 /\ Cell(regrets, i, j) >= best[3]
             THEN ScanMaxRegretLastWins(matrix, regrets, k + 1, <<i, j, Cell(regrets, i, j)>>)
             ELSE ScanMaxRegretLastWins(matrix, regrets, k + 1, best)

\* the row-major scan of findMaxRegret from cell number k on, with the best
\* triple <<maxI, maxJ, maxRegret>> found so far
RECURSIVE ScanMaxRegret(_, _, _, _)
ScanMaxRegret(matrix, regrets, k, best) ==
    LET n == Len(matrix)
        i == k \div n
        j == k % n
    IN  IF k >= n * n THEN best
        ELSE IF Cell(matrix, i, j) = 0 /\ Cell(regrets, i, j) > best[3]
             THEN ScanMaxRegret(matrix, regrets, k + 1, <<i, j, Cell(regrets, i, j)>>)
             ELSE ScanMaxRegret(matrix, regrets, k + 1, best)

findMaxRegret(matrix, regrets) ==
    ScanMaxRegret(matrix, regrets, 0, <<-1, -1, -1>>)

\* ------------------------------------------------------------------------
\* Included arcs: hasCycle, blockSubtours, buildCompletePath
\* ------------------------------------------------------------------------

\* graph.has(node): node is the origin of an included arc
HasSuccessor(arcs, node) == \E k \in 1 .. Len(arcs) : arcs[k][1] = node

\* graph.get(node)[0]: the destination of the first included arc from node
FirstNeighbor(arcs, node) ==
    arcs[CHOOSE k \in 1 .. Len(arcs) :
            /\ arcs[k][1] = node
            /\ \A l \in 1 .. (k - 1) : arcs[l][1] # node][2]

\* the nodes reached from the nodes of S by at most `fuel` more arcs
RECURSIVE ReachFrom(_, _, _)
ReachFrom(arcs, S, fuel) ==
    LET next == S \cup {arcs[k][2] : k \in {l \in 1 .. Len(arcs) : arcs[l][1] \in S}}
    IN  IF fuel = 0 \/ next = S THEN S ELSE ReachFrom(arcs, next, fuel - 1)

\* the depth-first search of hasCycle finds a back edge exactly when some
\* origin of an arc is reachable from itself
hasCycle(includedArcs) ==
    /\ Len(includedArcs) # 0
    /\ \E k \in 1 .. Len(includedArcs) :
          includedArcs[k][1] \in
              ReachFrom(includedArcs, {includedArcs[k][2]}, Len(includedArcs))

\* findPathEnds(start).end: follow the first neighbour until a node without
\* an outgoing arc.  The source loops forever on a cycle; `fuel` cuts the walk.
RECURSIVE PathEnd(_, _, _)
PathEnd(arcs, current, fuel) ==
    IF fuel = 0 \/ ~HasSuccessor(arcs, current) THEN current
    ELSE PathEnd(arcs, FirstNeighbor(arcs, current), fuel - 1)

findPathEnds(arcs, start) ==
    [start |-> start, end |-> PathEnd(arcs, start, Len(arcs) + 1)]

\* the loop of blockSubtours over the included arcs, from arc number k on
RECURSIVE BlockFrom(_, _, _, _)
BlockFrom(m, arcs, k, blocked) ==
    IF k > Len(arcs) THEN [matrix |-> m, blockedArcs |-> blocked]
    ELSE LET startFrom == findPathEnds(arcs, arcs[k][1]).start
             endTo     == findPathEnds(arcs, arcs[k][2]).end
         IN  IF Cell(m, endTo, startFrom) # EXCLUDED /\ Cell(m, endTo, startFrom) # INF
             THEN BlockFrom(SetCell(m, endTo, startFrom, EXCLUDED), arcs, k + 1,
                            Append(blocked, <<endTo, startFrom>>))
             ELSE BlockFrom(m, arcs, k + 1, blocked)

blockSubtours(matrix, includedArcs) ==
    IF Len(includedArcs) = 0
    THEN [matrix |-> deepCopy(matrix), blockedArcs |-> <<>>]
    ELSE BlockFrom(deepCopy(matrix), includedArcs, 1, <<>>)

\* the while loop of buildCompletePath
RECURSIVE FollowPath(_, _, _)
FollowPath(arcs, path, current) ==
    IF HasSuccessor(arcs, current) /\ Len(path) < Len(arcs)
    THEN FollowPath(arcs, Append(path, current), FirstNeighbor(arcs, current))
    ELSE IF Len(path) > 0 /\ path[Len(path)] # current
         THEN Append(path, current)
         ELSE path

buildCompletePath(includedArcs) ==
    IF Len(includedArcs) = 0 THEN <<>> ELSE FollowPath(includedArcs, <<>>, 0)

\* ------------------------------------------------------------------------
\* calculateTourCost
\* ------------------------------------------------------------------------

calculateTourCost(path, matrix) ==
    SumSeq([i \in 1 .. Len(path) |->
               Cell(matrix, path[i], path[(i % Len(path)) + 1])])

\* ------------------------------------------------------------------------
\* State
\* ------------------------------------------------------------------------

VARIABLES
    costMatrix,        \* the costMatrix prop
    pc,                \* "idle" | "search" (inside the while loop) | "returned"
    queue,             \* solveTSP: the frontier
    bestCost,          \* solveTSP: the incumbent cost
    bestPath,          \* solveTSP: the incumbent path
    allSteps,          \* solveTSP: the trace built so far
    stepCounter,       \* solveTSP: the number of the next step
    last,              \* solveTSP: the locals of the latest loop iteration
    result,            \* what solveTSP returned to startAlgorithm
    steps,             \* component state
    currentStepIndex,  \* component state
    isAutoPlaying,     \* component state
    isRunning,         \* the isRunning prop, set through setIsRunning
    pushed,            \* solveTSP: the nodes given to queue.push, in call order
    currentStep,       \* App state: "cities" | "matrix" | "algorithm" | "result"
    cities,            \* App state: the confirmed cities
    editorMatrix,      \* MatrixEditor state `matrix` (<<>> while not mounted)
    edits,             \* the number of changes the editor's matrix has had
                       \* (typed, drawn or made symmetric) since the App
                       \* was last reset, counted up to MaxEdits
    runs,              \* the number of clicks on "Démarrer" since the App
                       \* was last reset, counted up to MaxRuns
    units,             \* makeSymmetric makes costs that are not whole: a cost
                       \* x of the editor's matrix, of costMatrix and the
                       \* engine's state, or of appResult is held as the
                       \* integer x * units.editor, x * units.cost or
                       \* x * units.result (the sentinels as themselves)
    appResult,         \* App state `result`
    leafCall           \* the leaf branch of the loop applied on its own to
                       \* the included arcs of a node of level n: what it
                       \* is given and what it leaves (NoLeafCall in a run
                       \* of the program)

\* the state of the App component around LittleAlgorithm
appVars == <<currentStep, cities, editorMatrix, appResult, units, edits, runs>>

vars == <<costMatrix, pc, queue, bestCost, bestPath, allSteps, stepCounter, last,
          result, steps, currentStepIndex, isRunning, pushed, appVars, isAutoPlaying,
          leafCall>>

\* every cost is a whole number
\* the number of runs of solveTSP followed between two resets of the App
MaxRuns == 1

WholeUnits == [editor |-> 1, cost |-> 1, result |-> 1]

NoArc == <<>>

\* a record numbered from 0: `step: stepCounter - 1`
LittleStepNumberedFromZero(step, type, matrix, bound, selectedArc, regrets) ==
    [step |-> step - 1, type |-> type, matrix |-> matrix, bound |-> bound,
     selectedArc |-> selectedArc, regrets |-> regrets]

\* a LittleStep without its title and description
LittleStep(step, type, matrix, bound, selectedArc, regrets) ==
    [step |-> step, type |-> type, matrix |-> matrix, bound |-> bound,
     selectedArc |-> selectedArc, regrets |-> regrets]

BranchNode(matrix, bound, includedArcs, excluded, level) ==
    [matrix |-> matrix, bound |-> bound, includedArcs |-> includedArcs,
     excluded |-> excluded, level |-> level]

\* `return null`
NullResult == [null |-> TRUE, path |-> <<>>, cost |-> 0, steps |-> <<>>]

TSPResult(path, cost, trace) ==
    [null |-> FALSE, path |-> path, cost |-> cost, steps |-> trace]

\* the locals of one loop iteration: what became of the popped node.
\* `calls` lists the calls of reduceMatrix of the iteration, each with the
\* matrix passed and the object returned; `regrets` is the regret matrix;
\* `blockedArcs` is what blockSubtours reported.
Iteration(kind, node, arc, excludeBound, includeBound, pushedExclude, pushedInclude, regrets, calls, blockedArcs) ==
    [kind |-> kind, bound |-> node.bound, level |-> node.level, arc |-> arc,
     excludeBound |-> excludeBound, includeBound |-> includeBound,
     pushedExclude |-> pushedExclude, pushedInclude |-> pushedInclude,
     node |-> node, regrets |-> regrets, calls |-> calls, blockedArcs |-> blockedArcs]

\* Matrices as the JavaScript heap holds them: the heap is the sequence of
\* the row arrays allocated so far, a matrix is the sequence of the
\* references (indices into the heap) of its rows.
ReadHeap(heap, refs) == [r \in 1 .. Len(refs) |-> heap[refs[r]]]

\* the rows of a matrix are assigned through its references
WriteHeap(heap, refs, m) ==
    [x \in 1 .. Len(heap) |->
        IF \E r \in 1 .. Len(refs) : refs[r] = x
        THEN m[CHOOSE r \in 1 .. Len(refs) : refs[r] = x]
        ELSE heap[x]]

\* matrix.map(row => row): the new matrix holds the rows of the old one
sameRowsOnHeap(heap, refs) == [heap |-> heap, refs |-> refs]

\* deepCopy = matrix.map(row => [...row]): every row is a new array
deepCopyOnHeap(heap, refs) ==
    [heap |-> heap \o ReadHeap(heap, refs),
     refs |-> [r \in 1 .. Len(refs) |-> Len(heap) + r]]

\* the copies made between the parent's matrix and the argument of
\* reduceMatrix: deepCopy in solveTSP, and deepCopy in blockSubtours
RECURSIVE CopyChain(_, _, _)
CopyChain(heap, refs, copies) ==
    IF copies = 0 THEN [heap |-> heap, refs |-> refs]
    ELSE LET copy == deepCopyOnHeap(heap, refs)
         IN  CopyChain(copy.heap, copy.refs, copies - 1)

\* reduceMatrix on the heap: newMatrix = deepCopy(matrix), and every
\* subtraction is an assignment to a cell of newMatrix
reduceMatrixOnHeap(heap, refs) ==
    LET newMatrix == deepCopyOnHeap(heap, refs)
        reduced == reduceMatrix(ReadHeap(newMatrix.heap, newMatrix.refs))
    IN  [heap |-> WriteHeap(newMatrix.heap, newMatrix.refs, reduced.matrix),
         refs |-> newMatrix.refs]

\* one call of reduceMatrix: its argument `input` and what it returned, and
\* what the heap shows afterwards. `parent` is the matrix the argument was
\* made from by `copies` copies and the assignments that give `input` (the
\* argument itself, and no copy, for the first reduction).
ReduceCall(parent, copies, input, output) ==
    LET own == [r \in 1 .. Len(parent) |-> r]
        Observed(argument, after) ==
            [input |-> input, output |-> output, parent |-> parent,
             parentAfter |-> ReadHeap(after.heap, own),
             inputAfter |-> ReadHeap(after.heap, argument.refs),
             returned |-> ReadHeap(after.heap, after.refs),
             sharedRows |-> {argument.refs[r] : r \in 1 .. Len(parent)}
                                \cap {after.refs[r] : r \in 1 .. Len(parent)}]
        \* each heap is bound once, as the element of a set of one element
        calls == UNION {
            {Observed(argument, after) :
                after \in {reduceMatrixOnHeap(
                              WriteHeap(argument.heap, argument.refs, input),
                              argument.refs)}} :
            argument \in {CopyChain(parent, own, copies)}}
    IN  CHOOSE call \in calls : TRUE

\* The objects of one pass of the loop on the heap: `objs` maps the name of
\* a local or of a stored field to the references of its rows.
HeapOf(node) ==
    [heap |-> node.matrix,
     objs |-> ("currentNode.matrix" :> [r \in 1 .. Len(node.matrix) |-> r])]

\* `name` = an array of new rows holding m (calculateRegrets builds one)
NewOnHeap(h, name, m) ==
    [heap |-> h.heap \o m,
     objs |-> (name :> [r \in 1 .. Len(m) |-> Len(h.heap) + r]) @@ h.objs]

\* `name = deepCopy(from)`
CopyOnHeap(h, name, from) ==
    [heap |-> deepCopyOnHeap(h.heap, h.objs[from]).heap,
     objs |-> (name :> deepCopyOnHeap(h.heap, h.objs[from]).refs) @@ h.objs]

\* the assignments `name[r][c] = ...` that leave m in `name`
AssignOnHeap(h, name, m) ==
    [heap |-> WriteHeap(h.heap, h.objs[name], m), objs |-> h.objs]

\* `name = deepCopy(from)` followed by the assignments that leave m in it
CopyAssignOnHeap(h, name, from, m) ==
    AssignOnHeap(CopyOnHeap(h, name, from), name, m)

NoNode == BranchNode(<<>>, 0, <<>>, <<>>, 0)

NoIteration ==
    Iteration("none", NoNode, NoArc, 0, 0, FALSE, FALSE, <<>>, <<>>, <<>>)

\* the leaf branch has been given nothing
NoLeafCall ==
    [called |-> FALSE, includedArcs |-> <<>>, completePath |-> <<>>,
     accepted |-> FALSE, bestCost |-> INF, bestPath |-> <<>>]

\* what identifies a node of the search tree: its included and excluded arcs
NodeKey(node) == <<node.includedArcs, node.excluded>>

\* ------------------------------------------------------------------------
\* solveTSP
\* ------------------------------------------------------------------------

\* a size test that is off by one: two cities are let through
TooFewCitiesOffByOne(n) == n < MIN_CITIES - 1

\* `if (n < 3) return null`
TooFewCities(n) == n < MIN_CITIES

\* costMatrix with 1e9 on the diagonal
initialMatrix(cm) ==
    [r \in 1 .. Len(cm) |-> [c \in 1 .. Len(cm[r]) |-> IF r = c THEN INF ELSE cm[r][c]]]

\* an insertion that puts a node before the nodes of equal bound
RECURSIVE InsertBeforeEqualBounds(_, _)
InsertBeforeEqualBounds(sorted, node) ==
    IF sorted = <<>> THEN <<node>>
    ELSE IF Head(sorted).bound < node.bound
         THEN <<Head(sorted)>> \o InsertBeforeEqualBounds(Tail(sorted), node)
         ELSE <<node>> \o sorted

\* an insertion that puts the node at the end whatever its bound
InsertAtEnd(sorted, node) == Append(sorted, node)

\* queue.sort((a, b) => a.bound - b.bound): a stable sort, by insertion
RECURSIVE InsertByBound(_, _)
InsertByBound(sorted, node) ==
    IF sorted = <<>> THEN <<node>>
    ELSE IF Head(sorted).bound <= node.bound
         THEN <<Head(sorted)>> \o InsertByBound(Tail(sorted), node)
         ELSE <<node>> \o sorted

RECURSIVE SortByBound(_)
SortByBound(q) ==
    IF q = <<>> THEN <<>>
    ELSE InsertByBound(SortByBound(SubSeq(q, 1, Len(q) - 1)), q[Len(q)])

\* a pruning test that lets a node through whose bound equals the incumbent
PrunedOnlyAbove(bound, best) == bound > best

\* `if (currentNode.bound >= bestCost) continue`
Pruned(bound, best) == bound >= best

\* `if (excludeBound < bestCost)` and `if (includeBound < bestCost)`
ShouldPush(bound, best) == bound < best

\* the leaf test: `completePath.length === n && !hasCycle(includedArcs)`
AcceptedLeaf(node, n) ==
    /\ Len(buildCompletePath(node.includedArcs)) = n
    /\ ~hasCycle(node.includedArcs)

\* an exclusion that writes 1e9 in the cell instead of -999
excludeMatrixAsInfinite(node, i, j) == SetCell(deepCopy(node.matrix), i, j, INF)

\* an exclusion that leaves the cell as it is
excludeMatrixKeepingCell(node, i, j) == deepCopy(node.matrix)

\* excludeMatrix: the node's matrix with cell (i, j) set to -999
excludeMatrix(node, i, j) == SetCell(deepCopy(node.matrix), i, j, EXCLUDED)

\* an inclusion that leaves column j as it is
includeMatrixKeepingColumn(node, i, j) ==
    [r \in 1 .. Len(node.matrix) |->
        [c \in 1 .. Len(node.matrix) |->
            IF r = i + 1 \/ (r = j + 1 /\ c = i + 1)
            THEN EXCLUDED ELSE node.matrix[r][c]]]

\* includeMatrix: row i and column j set to -999, then the reverse cell (j, i)
includeMatrix(node, i, j) ==
    [r \in 1 .. Len(node.matrix) |->
        [c \in 1 .. Len(node.matrix) |->
            IF r = i + 1 \/ c = j + 1 \/ (r = j + 1 /\ c = i + 1)
            THEN EXCLUDED ELSE node.matrix[r][c]]]

\* the matrices allocated and assigned by a pass of the loop that evaluates
\* both children of `node` for the arc (i, j), in the order of the code
BranchOnHeap(node, i, j) ==
    LET arcs == Append(node.includedArcs, <<i, j>>)
        h1 == NewOnHeap(HeapOf(node), "regrets", calculateRegrets(node.matrix))
        h2 == CopyOnHeap(h1, "regretStep.matrix", "currentNode.matrix")
        h3 == CopyOnHeap(h2, "regretStep.regrets", "regrets")
        h4 == CopyAssignOnHeap(h3, "excludeMatrix", "currentNode.matrix",
                               excludeMatrix(node, i, j))
        h5 == CopyAssignOnHeap(h4, "reducedExcludeMatrix", "excludeMatrix",
                               reduceMatrix(excludeMatrix(node, i, j)).matrix)
        h6 == CopyAssignOnHeap(h5, "includeMatrix", "currentNode.matrix",
                               includeMatrix(node, i, j))
        h7 == CopyAssignOnHeap(h6, "blockedMatrix", "includeMatrix",
                               blockSubtours(includeMatrix(node, i, j), arcs).matrix)
        h8 == CopyAssignOnHeap(h7, "reducedIncludeMatrix", "blockedMatrix",
                 reduceMatrix(blockSubtours(includeMatrix(node, i, j), arcs).matrix).matrix)
    IN  CopyOnHeap(h8, "branchStep.matrix", "reducedIncludeMatrix")

\* an inclusion with no guard: the cycle test always passes and no closing
\* arc is blocked
IncludeBranchUnguarded(node, i, j) ==
    [matrix       |-> includeMatrix(node, i, j),
     includedArcs |-> Append(node.includedArcs, <<i, j>>),
     cycle        |-> FALSE,
     blocked      |-> [matrix |-> deepCopy(includeMatrix(node, i, j)), blockedArcs |-> <<>>]]

\* "TYPE 1: include the arc (i, j)" up to the reduction: includeMatrix, the
\* new list of included arcs, the verdict of hasCycle on it, and what
\* blockSubtours returns for it
IncludeBranch(node, i, j) ==
    [matrix       |-> includeMatrix(node, i, j),
     includedArcs |-> Append(node.includedArcs, <<i, j>>),
     cycle        |-> hasCycle(Append(node.includedArcs, <<i, j>>)),
     blocked      |-> blockSubtours(includeMatrix(node, i, j),
                                    Append(node.includedArcs, <<i, j>>))]

\* one pass through the body of `while (queue.length > 0)`: the next values
\* of the loop's variables, and the locals of the pass
LoopBody(cm, q, best, path, trace, counter) ==
    LET n       == Len(cm)
        sorted  == SortByBound(q)
        node    == Head(sorted)
        rest    == Tail(sorted)
        regrets == calculateRegrets(node.matrix)
        max     == findMaxRegret(node.matrix, regrets)
        maxI    == max[1]
        maxJ    == max[2]
        regretStep == LittleStep(counter, "regret", deepCopy(node.matrix), node.bound,
                                 <<maxI, maxJ>>, deepCopy(regrets))
        exclude == reduceMatrix(excludeMatrix(node, maxI, maxJ))
        excludeBound == node.bound + exclude.reduction
        excludeChild == BranchNode(exclude.matrix, excludeBound, node.includedArcs,
                                   Append(node.excluded, <<maxI, maxJ>>), node.level)
        afterExclude == IF ShouldPush(excludeBound, best)
                        THEN Append(rest, excludeChild) ELSE rest
        arcCost == Cell(node.matrix, maxI, maxJ)
        inc == IncludeBranch(node, maxI, maxJ)
        incMatrix == inc.matrix
        newIncludedArcs == inc.includedArcs
        blocked == inc.blocked
        include == reduceMatrix(blocked.matrix)
        includeBound == node.bound + arcCost + include.reduction
        includeChild == BranchNode(include.matrix, includeBound, newIncludedArcs,
                                   node.excluded, node.level + 1)
        excludeCall == ReduceCall(node.matrix, 1, excludeMatrix(node, maxI, maxJ), exclude)
        includeCall == ReduceCall(node.matrix, 2, blocked.matrix, include)
        Same(kind) ==
            [queue |-> rest, bestCost |-> best, bestPath |-> path,
             allSteps |-> trace, stepCounter |-> counter,
             last |-> Iteration(kind, node, NoArc, 0, 0, FALSE, FALSE,
                                IF kind = "nozero" THEN regrets ELSE <<>>, <<>>, <<>>)]
    IN  IF Pruned(node.bound, best) THEN Same("prune")
        ELSE IF node.level = n THEN
            LET completePath == buildCompletePath(node.includedArcs)
                tourCost     == calculateTourCost(completePath, cm)
            IN  IF AcceptedLeaf(node, n) /\ tourCost < best
                THEN [Same("leaf") EXCEPT !.bestCost = tourCost, !.bestPath = completePath]
                ELSE Same("leaf")
        ELSE IF maxI = -1 THEN Same("nozero")
        ELSE IF inc.cycle THEN
            [queue |-> afterExclude, bestCost |-> best, bestPath |-> path,
             allSteps |-> trace \o <<regretStep,
                            LittleStep(counter + 1, "branch", deepCopy(incMatrix),
                                       node.bound + arcCost, NoArc, <<>>)>>,
             stepCounter |-> counter + 2,
             last |-> Iteration("cycle", node, <<maxI, maxJ>>, excludeBound,
                                node.bound + arcCost,
                                ShouldPush(excludeBound, best), FALSE,
                                regrets, <<excludeCall>>, <<>>)]
        ELSE
            [queue |-> IF ShouldPush(includeBound, best)
                       THEN Append(afterExclude, includeChild) ELSE afterExclude,
             bestCost |-> best, bestPath |-> path,
             allSteps |-> trace \o <<regretStep,
                            LittleStep(counter + 1, "branch", deepCopy(include.matrix),
                                       includeBound, NoArc, <<>>)>>,
             stepCounter |-> counter + 2,
             last |-> Iteration("branch", node, <<maxI, maxJ>>, excludeBound,
                                includeBound, ShouldPush(excludeBound, best),
                                ShouldPush(includeBound, best),
                                regrets, <<excludeCall, includeCall>>,
                                blocked.blockedArcs)]

\* finalMatrix: -999 everywhere but on the arcs of bestPath
finalMatrix(cm, path) ==
    [r \in 1 .. Len(cm) |->
        [c \in 1 .. Len(cm) |->
            IF r # c /\ \E i \in 1 .. Len(path) :
                          path[i] = r - 1 /\ path[(i % Len(path)) + 1] = c - 1
            THEN cm[r][c] ELSE EXCLUDED]]

\* the returned object without the closing 'final' record
ReturnedWithoutFinal(cm, best, path, trace, counter) ==
    TSPResult(path, best,
        trace \o << LittleStep(counter, "reduction", finalMatrix(cm, path), best, NoArc, <<>>) >>)

\* the two records pushed after the loop, and the returned object
Returned(cm, best, path, trace, counter) ==
    TSPResult(path, best,
        trace \o << LittleStep(counter, "reduction", finalMatrix(cm, path), best, NoArc, <<>>),
                    LittleStep(counter + 1, "final", finalMatrix(cm, path), best, NoArc, <<>>) >>)

\* ------------------------------------------------------------------------
\* Actions
\* ------------------------------------------------------------------------

\* the cities of the App: only their number matters here
CityList(n) == [k \in 1 .. n |-> k]

Init ==
    /\ costMatrix \in InputMatrices
    /\ currentStep = "algorithm"
    /\ cities = CityList(Len(costMatrix))
    /\ editorMatrix = <<>>
    /\ units = WholeUnits
    /\ edits = 0
    /\ runs = 0
    /\ appResult = NullResult
    /\ pushed = <<>>
    /\ pc = "idle"
    /\ queue = <<>>
    /\ bestCost = INF
    /\ bestPath = <<>>
    /\ allSteps = <<>>
    /\ stepCounter = 1
    /\ last = NoIteration
    /\ result = NullResult
    /\ steps = <<>>
    /\ currentStepIndex = -1
    /\ isRunning = FALSE
    /\ isAutoPlaying = FALSE
    /\ leafCall = NoLeafCall

\* startAlgorithm up to the loop of solveTSP: setIsRunning(true), the size
\* test, the initial reduction and the root node.  With too few cities
\* solveTSP returns null and startAlgorithm ends with setIsRunning(false).
StartAlgorithm ==
    /\ currentStep = "algorithm"
    /\ pc = "idle"
    /\ ~isRunning
    /\ runs < MaxRuns
    /\ runs' = runs + 1
    /\ IF TooFewCities(Len(costMatrix))
       THEN /\ result' = NullResult
            /\ isRunning' = FALSE
            /\ pc' = "returned"
            /\ UNCHANGED <<queue, allSteps, stepCounter, last, pushed>>
       ELSE LET root == reduceMatrix(initialMatrix(costMatrix))
                node == BranchNode(root.matrix, root.reduction, <<>>, <<>>, 0)
            IN  /\ allSteps' = <<LittleStep(1, "reduction", deepCopy(root.matrix),
                                            root.reduction, NoArc, <<>>)>>
                /\ stepCounter' = 2
                /\ queue' = <<node>>
                /\ pushed' = <<NodeKey(node)>>
                /\ last' = Iteration("root", node, NoArc, 0, 0, FALSE, FALSE, <<>>,
                                     <<ReduceCall(initialMatrix(costMatrix), 0,
                                                initialMatrix(costMatrix), root)>>, <<>>)
                /\ isRunning' = TRUE
                /\ pc' = "search"
                /\ UNCHANGED result
    /\ UNCHANGED <<costMatrix, bestCost, bestPath, steps, currentStepIndex, currentStep,
                   cities, editorMatrix, appResult, units, edits, isAutoPlaying>>
    /\ UNCHANGED leafCall

\* one iteration of the while loop
ProcessNode ==
    /\ pc = "search"
    /\ queue # <<>>
    /\ \E next \in {LoopBody(costMatrix, queue, bestCost, bestPath, allSteps, stepCounter)} :
           /\ queue' = next.queue
           /\ bestCost' = next.bestCost
           /\ bestPath' = next.bestPath
           /\ allSteps' = next.allSteps
           /\ stepCounter' = next.stepCounter
           /\ last' = next.last
           /\ pushed' = pushed \o [k \in 1 .. (Len(next.queue) - Len(queue) + 1) |->
                                      NodeKey(next.queue[Len(queue) - 1 + k])]
    /\ UNCHANGED <<costMatrix, pc, result, steps, currentStepIndex, isRunning, appVars, isAutoPlaying>>
    /\ UNCHANGED leafCall

\* the loop ends: solveTSP returns, and startAlgorithm stores the trace
\* (result.steps is never empty, so onComplete is not called here)
ReturnResult ==
    /\ pc = "search"
    /\ queue = <<>>
    /\ LET r == Returned(costMatrix, bestCost, bestPath, allSteps, stepCounter)
       IN  /\ result' = r
           /\ allSteps' = r.steps
           /\ stepCounter' = stepCounter + 2
           /\ steps' = r.steps
           /\ currentStepIndex' = 0
    /\ pc' = "returned"
    /\ UNCHANGED <<costMatrix, queue, bestCost, bestPath, last, isRunning, pushed, appVars, isAutoPlaying>>
    /\ UNCHANGED leafCall

Next == StartAlgorithm \/ ProcessNode \/ ReturnResult

Spec == Init /\ [][Next]_vars

\* the guards of ProcessNode and of ReturnResult: the loop test
\* `queue.length > 0` inside solveTSP, and its failure
ProcessNodeEnabled == pc = "search" /\ queue # <<>>

ReturnResultEnabled == pc = "search" /\ queue = <<>>

\* solveTSP is synchronous: once startAlgorithm has called it, every
\* iteration that can run does run, and so does the return. This is
\* WF_vars(ProcessNode) /\ WF_vars(ReturnResult), written out with the
\* guards of the two actions for ENABLED (each changes pc or the queue
\* whenever its guard holds).
FairSpec ==
    /\ Spec
    /\ ([]<>~ProcessNodeEnabled \/ []<><<ProcessNode>>_vars)
    /\ ([]<>~ReturnResultEnabled \/ []<><<ReturnResult>>_vars)

\* the same program, started on the matrices with ordinary costs only
InitOrdinary == Init /\ costMatrix \in OrdinaryMatrices

SpecOrdinary == InitOrdinary /\ [][Next]_vars

\* ------------------------------------------------------------------------
\* The App around LittleAlgorithm: city manager, matrix editor, navigation
\* ------------------------------------------------------------------------

\* the largest number typed into a cell of the matrix editor
MaxTyped == 1

\* the largest cost "Générer aléatoirement" draws in the model (the code
\* draws up to 68)
MaxRandomCost == 16

\* the number of changes of the editor's matrix followed between two resets
\* of the App
MaxEdits == 2

Digits == <<"0", "1", "2", "3", "4", "5", "6", "7", "8", "9">>

\* the digits above 9 that parseInt reads in base 16, in both cases
LowerHexDigits == <<"a", "b", "c", "d", "e", "f">>
UpperHexDigits == <<"A", "B", "C", "D", "E", "F">>

\* the decimal digits of k >= 0, as a sequence of characters
RECURSIVE DecimalText(_)
DecimalText(k) ==
    IF k < 10 THEN <<Digits[k + 1]>>
    ELSE Append(DecimalText(k \div 10), Digits[(k % 10) + 1])

\* the texts an input of the editor hands to updateMatrix: the empty text,
\* the numbers up to MaxTyped with and without a sign, and texts that are
\* not whole decimal numbers
TypedTexts ==
    {DecimalText(k) : k \in 0 .. MaxTyped}
        \cup {<<"-">> \o DecimalText(k) : k \in 1 .. MaxTyped}
        \cup {<<>>, <<"a">>, <<"-">>, <<"1", ".", "7">>, <<"1", "e", "3">>,
              <<"0", "x", "1">>, <<" ", "1">>, <<"\t", "1">>, <<"\n", " ", "1">>,
              <<"U+00A0", "1">>}

\* the value of the character c as a digit, -1 when it is none
DigitValue(c) ==
    IF \E d \in 1 .. 10 : Digits[d] = c
    THEN (CHOOSE d \in 1 .. 10 : Digits[d] = c) - 1
    ELSE IF \E d \in 1 .. 6 : LowerHexDigits[d] = c \/ UpperHexDigits[d] = c
    THEN (CHOOSE d \in 1 .. 6 : LowerHexDigits[d] = c \/ UpperHexDigits[d] = c) + 9
    ELSE -1

\* what parseInt gives: a whole number, or NaN
Parsed(n) == [nan |-> FALSE, value |-> n]
NaN == [nan |-> TRUE, value |-> 0]

\* the number read in base `radix` from the leading digits of text, after
\* the digits read so far gave acc; `any` tells whether a digit was read
RECURSIVE LeadingDigits(_, _, _, _)
LeadingDigits(text, radix, acc, any) ==
    IF text # <<>> /\ DigitValue(Head(text)) >= 0 /\ DigitValue(Head(text)) < radix
    THEN LeadingDigits(Tail(text), radix, radix * acc + DigitValue(Head(text)), TRUE)
    ELSE IF any THEN Parsed(acc) ELSE NaN

\* the characters parseInt skips at the start of a text: the white space
\* and the line terminators of JavaScript.  A character outside ASCII is
\* written by its code point
WhiteSpace ==
    {"\t", "U+000B", "\f", " ", "U+00A0", "U+FEFF", "U+1680", "U+2000", "U+2001",
     "U+2002", "U+2003", "U+2004", "U+2005", "U+2006", "U+2007", "U+2008", "U+2009",
     "U+200A", "U+202F", "U+205F", "U+3000"}
LineTerminators == {"\n", "\r", "U+2028", "U+2029"}

\* text without its leading white space and line terminators
RECURSIVE TrimStart(_)
TrimStart(text) ==
    IF text # <<>> /\ Head(text) \in WhiteSpace \cup LineTerminators
    THEN TrimStart(Tail(text))
    ELSE text

\* the number read from a text whose blanks and sign are gone: in base 16
\* after the prefix 0x or 0X, in base 10 otherwise
Unsigned(text) ==
    IF Len(text) >= 2 /\ text[1] = "0" /\ text[2] \in {"x", "X"}
    THEN LeadingDigits(Tail(Tail(text)), 16, 0, FALSE)
    ELSE LeadingDigits(text, 10, 0, FALSE)

\* parseInt(text), no radix given: leading white space is skipped, then an
\* optional sign, then the digits; NaN when there is no digit there.  The
\* numbers read are those below 2^31
parseInt(text) ==
    LET s == TrimStart(text)
    IN  IF s # <<>> /\ Head(s) = "-"
        THEN [Unsigned(Tail(s)) EXCEPT !.value = 0 - @]
        ELSE IF s # <<>> /\ Head(s) = "+" THEN Unsigned(Tail(s))
        ELSE Unsigned(s)

\* `value === '' ? 0 : parseInt(value) || 0`
numValue(value) ==
    IF value = <<>> THEN 0
    ELSE IF parseInt(value).nan THEN 0 ELSE parseInt(value).value

\* Math.max(15, baseCost + variation)
DrawnCost(baseCost, variation) ==
    IF baseCost + variation < 15 THEN 15 ELSE baseCost + variation

\* the costs "Générer aléatoirement" draws for a cell, baseCost being
\* Math.floor(Math.random() * 40) + 20 and variation
\* Math.floor(Math.random() * 20) - 10, up to MaxRandomCost
RandomCosts ==
    {c \in {DrawnCost(baseCost, variation) : baseCost \in 20 .. 59, variation \in (-10) .. 9} :
        c <= MaxRandomCost}

\* the largest unit of the costs held (see `units`)
MaxUnit == 2

\* every cell of m is even
AllEven(m) == \A r \in 1 .. Len(m) : \A c \in 1 .. Len(m) : m[r][c] % 2 = 0

\* the numbers m holds with unit u, held with the least unit that keeps
\* every cell whole
RECURSIVE Held(_, _)
Held(m, u) ==
    IF u % 2 = 0 /\ AllEven(m)
    THEN Held([r \in 1 .. Len(m) |-> [c \in 1 .. Len(m) |-> m[r][c] \div 2]], u \div 2)
    ELSE [matrix |-> m, unit |-> u]

\* makeSymmetric on the matrix m held with unit u: every pair of cells
\* [i][j], [j][i] becomes (m[i][j] + m[j][i]) / 2, the diagonal is kept
makeSymmetric(m, u) ==
    Held([r \in 1 .. Len(m) |->
             [c \in 1 .. Len(m) |-> IF r = c THEN 2 * m[r][c] ELSE m[r][c] + m[c][r]]],
         2 * u)

\* the matrices generateRandomMatrix can build for n cities
RandomMatrices(n) ==
    {[r \in 1 .. n |-> [c \in 1 .. n |-> IF r = c THEN 0 ELSE f[<<r, c>>]]] :
        f \in [(1 .. n) \X (1 .. n) -> RandomCosts]}

\* Array(n).fill(null).map(() => Array(n).fill(0))
ZeroMatrix(n) == [r \in 1 .. n |-> [c \in 1 .. n |-> 0]]

\* isValidMatrix of the editor, for n cities
isValidMatrix(m, n) ==
    \A i, j \in 0 .. (n - 1) : i # j => ~(Cell(m, i, j) <= 0)

\* LittleAlgorithm is unmounted or mounted anew: its state and the locals of
\* solveTSP are those of a fresh component
RemountAlgorithm ==
    /\ pc' = "idle"
    /\ queue' = <<>>
    /\ bestCost' = INF
    /\ bestPath' = <<>>
    /\ allSteps' = <<>>
    /\ stepCounter' = 1
    /\ last' = NoIteration
    /\ pushed' = <<>>
    /\ result' = NullResult
    /\ steps' = <<>>
    /\ currentStepIndex' = -1
    /\ isAutoPlaying' = FALSE

\* isValidMatrix, called by the first render of the editor on initialMatrix,
\* passes row i: every cell off the diagonal is there and positive
RowPasses(m, i, n) ==
    \A j \in 0 .. (n - 1) :
        j # i => (j < Len(m[i + 1]) /\ Cell(m, i, j) > 0)

\* that call throws a TypeError: it reaches a row initialMatrix does not
\* have (it returns false at the first cell that is not positive)
RenderThrows(m, n) ==
    /\ Len(m) < n
    /\ n >= 2
    /\ \A i \in 0 .. (Len(m) - 1) : RowPasses(m, i, n)

\* what is left of the editor when its render throws: nothing catches the
\* error and React unmounts the tree
RenderError == "TypeError"

\* the matrix editor's state when the step shown becomes `step`: mounted on
\* the matrix step with initialMatrix = costMatrix (replaced by zeros when
\* its size is not the number of cities), absent on the other steps
MountedEditor(step, cm, cs) ==
    IF step # "matrix" THEN <<>>
    ELSE IF RenderThrows(cm, Len(cs)) THEN RenderError
    ELSE IF Len(cm) # Len(cs) THEN ZeroMatrix(Len(cs)) ELSE cm

\* the unit of the matrix MountedEditor gives, u being the unit of cm
MountedUnit(step, cm, cs, u) ==
    IF step = "matrix" /\ Len(cm) = Len(cs) THEN u ELSE 1

\* ------------------------------------------------------------------------
\* Playback: the controls of LittleAlgorithm and onComplete
\* ------------------------------------------------------------------------

\* the while loop of solveTSP run from the given locals to its end, and the
\* object returned
RECURSIVE RunLoop(_, _, _, _, _, _)
RunLoop(cm, q, best, path, trace, counter) ==
    IF q = <<>> THEN Returned(cm, best, path, trace, counter)
    ELSE LET next == LoopBody(cm, q, best, path, trace, counter)
         IN  RunLoop(cm, next.queue, next.bestCost, next.bestPath,
                     next.allSteps, next.stepCounter)

\* solveTSP as a function of the costMatrix prop
solveTSP(cm) ==
    IF TooFewCities(Len(cm)) THEN NullResult
    ELSE LET root == reduceMatrix(initialMatrix(cm))
         IN  RunLoop(cm, <<BranchNode(root.matrix, root.reduction, <<>>, <<>>, 0)>>,
                     INF, <<>>,
                     <<LittleStep(1, "reduction", deepCopy(root.matrix),
                                  root.reduction, NoArc, <<>>)>>, 2)

\* onComplete(r): handleAlgorithmComplete stores r and shows the result
\* step, which unmounts LittleAlgorithm
OnComplete(r) ==
    /\ appResult' = r
    /\ currentStep' = "result"
    /\ isRunning' = FALSE
    /\ units' = [units EXCEPT !.result = units.cost]
    /\ RemountAlgorithm
    /\ UNCHANGED <<costMatrix, cities, editorMatrix, edits, runs>>

\* the effect on [isAutoPlaying, currentStepIndex, ...] once auto-play is on
\* and the index is `index`: at the last step it turns auto-play off, calls
\* solveTSP again and hands the result to onComplete; before the last step
\* it only arms the timer
AutoPlayEffect(index) ==
    IF index = Len(steps) - 1
    THEN \E r \in {solveTSP(costMatrix)} :
             IF r.null
             THEN /\ isAutoPlaying' = FALSE
                  /\ currentStepIndex' = index
                  /\ UNCHANGED <<costMatrix, pc, queue, bestCost, bestPath, allSteps,
                                 stepCounter, last, result, steps, isRunning, pushed,
                                 appVars>>
             ELSE OnComplete(r)
    ELSE /\ isAutoPlaying' = TRUE
         /\ currentStepIndex' = index
         /\ UNCHANGED <<costMatrix, pc, queue, bestCost, bestPath, allSteps,
                        stepCounter, last, result, steps, isRunning, pushed, appVars>>

\* auto-play is on at the last step: the timer's nextStep() has been rendered
\* and the effect of that render has not run yet
EffectPending ==
    /\ currentStep = "algorithm"
    /\ pc # "search"
    /\ isAutoPlaying
    /\ currentStepIndex = Len(steps) - 1

\* toggleAutoPlay, and the effect that follows when auto-play is turned on (a
\* click is rendered and its effects run before the next event).  A click
\* while an effect is pending runs that effect in the same render, after the
\* handler: see AutoPlayComplete and ResetAppBeforeEffect
ToggleAutoPlay ==
    /\ currentStep = "algorithm"
    /\ pc # "search"
    /\ isRunning
    /\ ~EffectPending
    /\ IF isAutoPlaying
       THEN /\ isAutoPlaying' = FALSE
            /\ UNCHANGED <<costMatrix, pc, queue, bestCost, bestPath, allSteps,
                           stepCounter, last, result, steps, currentStepIndex,
                           isRunning, pushed, appVars>>
       ELSE AutoPlayEffect(currentStepIndex)
    /\ UNCHANGED leafCall

\* the timer armed by the effect fires: nextStep() moves the index and
\* returns.  The effect of the render that follows runs later: before the
\* last step it only arms the next timer, at the last step it is pending
AutoPlayTick ==
    /\ currentStep = "algorithm"
    /\ pc # "search"
    /\ isAutoPlaying
    /\ currentStepIndex < Len(steps) - 1
    /\ currentStepIndex' = currentStepIndex + 1
    /\ UNCHANGED <<costMatrix, pc, queue, bestCost, bestPath, allSteps, stepCounter,
                   last, result, steps, isRunning, pushed, appVars, isAutoPlaying>>
    /\ UNCHANGED leafCall

\* the pending effect runs at the last step: setIsAutoPlaying(false),
\* solveTSP() and onComplete(result).  A click on toggle, reset, skip or a
\* progress button that falls before it ends in the same state: the effect
\* runs after the handler and its updates are applied last
AutoPlayComplete ==
    /\ EffectPending
    /\ AutoPlayEffect(currentStepIndex)
    /\ UNCHANGED leafCall

\* a click on "Suivant" (disabled at the last step and during auto-play)
NextStep ==
    /\ currentStep = "algorithm"
    /\ pc # "search"
    /\ isRunning
    /\ ~isAutoPlaying
    /\ currentStepIndex < Len(steps) - 1
    /\ currentStepIndex' = currentStepIndex + 1
    /\ UNCHANGED <<costMatrix, pc, queue, bestCost, bestPath, allSteps, stepCounter,
                   last, result, steps, isRunning, pushed, appVars, isAutoPlaying>>
    /\ UNCHANGED leafCall

\* a click on "Précédent" (disabled at the first step and during auto-play)
PrevStep ==
    /\ currentStep = "algorithm"
    /\ pc # "search"
    /\ isRunning
    /\ ~isAutoPlaying
    /\ currentStepIndex > 0
    /\ currentStepIndex' = currentStepIndex - 1
    /\ UNCHANGED <<costMatrix, pc, queue, bestCost, bestPath, allSteps, stepCounter,
                   last, result, steps, isRunning, pushed, appVars, isAutoPlaying>>
    /\ UNCHANGED leafCall

\* reset: the trace is dropped and the start button comes back
Reset ==
    /\ currentStep = "algorithm"
    /\ pc # "search"
    /\ isRunning
    /\ ~EffectPending
    /\ isRunning' = FALSE
    /\ RemountAlgorithm
    /\ UNCHANGED <<costMatrix, appVars>>
    /\ UNCHANGED leafCall

\* `steps[steps.length - 1]?.bound || 0`
LastBoundOrZero(trace) == IF trace = <<>> THEN 0 ELSE trace[Len(trace)].bound

\* the button "Passer au résultat", shown whenever steps.length > 0
SkipToResult ==
    /\ currentStep = "algorithm"
    /\ pc # "search"
    /\ Len(steps) > 0
    /\ ~EffectPending
    /\ OnComplete(TSPResult(<<0, 1, 2, 0>>, LastBoundOrZero(steps), steps))
    /\ UNCHANGED leafCall

PlaybackNext ==
    \/ Next
    \/ ToggleAutoPlay
    \/ AutoPlayTick
    \/ AutoPlayComplete
    \/ NextStep
    \/ PrevStep
    \/ Reset
    \/ SkipToResult

PlaybackSpec == Init /\ [][PlaybackNext]_vars

WizardInit ==
    /\ currentStep = "cities"
    /\ cities = <<>>
    /\ costMatrix = <<>>
    /\ appResult = NullResult
    /\ isRunning = FALSE
    /\ isAutoPlaying = FALSE
    /\ editorMatrix = <<>>
    /\ units = WholeUnits
    /\ edits = 0
    /\ runs = 0
    /\ pc = "idle"
    /\ queue = <<>>
    /\ bestCost = INF
    /\ bestPath = <<>>
    /\ allSteps = <<>>
    /\ stepCounter = 1
    /\ last = NoIteration
    /\ pushed = <<>>
    /\ result = NullResult
    /\ steps = <<>>
    /\ currentStepIndex = -1
    /\ leafCall = NoLeafCall

\* CityManager.handleConfirm with n cities in its list, and
\* handleCitiesConfirmed
CitiesConfirmed(n) ==
    /\ currentStep = "cities"
    /\ pc # "search"
    /\ n >= MIN_CITIES
    /\ cities' = CityList(n)
    /\ costMatrix' = ZeroMatrix(n)
    /\ currentStep' = "matrix"
    /\ editorMatrix' = MountedEditor("matrix", ZeroMatrix(n), CityList(n))
    /\ units' = [units EXCEPT !.cost = 1, !.editor = 1]
    /\ RemountAlgorithm
    /\ UNCHANGED <<appResult, isRunning, edits, runs>>
    /\ UNCHANGED leafCall

\* MatrixEditor.updateMatrix(i, j, value), called by the input of an
\* off-diagonal cell
UpdateMatrix(i, j, value) ==
    /\ currentStep = "matrix"
    /\ i # j
    /\ edits < MaxEdits
    /\ edits' = edits + 1
    /\ \E h \in {Held(SetCell(editorMatrix, i, j, numValue(value) * units.editor),
                       units.editor)} :
           /\ editorMatrix' = h.matrix
           /\ units' = [units EXCEPT !.editor = h.unit]
    /\ UNCHANGED <<costMatrix, pc, queue, bestCost, bestPath, allSteps, stepCounter,
                   last, result, steps, currentStepIndex, isRunning, pushed,
                   currentStep, cities, appResult, isAutoPlaying, runs>>
    /\ UNCHANGED leafCall

\* a click on "Générer aléatoirement": every off-diagonal cell is redrawn
GenerateRandomMatrix ==
    /\ currentStep = "matrix"
    /\ edits < MaxEdits
    /\ edits' = edits + 1
    /\ \E m \in RandomMatrices(Len(cities)) : editorMatrix' = m
    /\ units' = [units EXCEPT !.editor = 1]
    /\ UNCHANGED <<costMatrix, pc, queue, bestCost, bestPath, allSteps, stepCounter,
                   last, result, steps, currentStepIndex, isRunning, pushed,
                   currentStep, cities, appResult, isAutoPlaying, runs>>
    /\ UNCHANGED leafCall

\* a click on "Rendre symétrique", as far as the averages can be held
MakeSymmetric ==
    /\ currentStep = "matrix"
    /\ edits < MaxEdits
    /\ edits' = edits + 1
    /\ \E h \in {makeSymmetric(editorMatrix, units.editor)} :
           /\ h.unit <= MaxUnit
           /\ editorMatrix' = h.matrix
           /\ units' = [units EXCEPT !.editor = h.unit]
    /\ UNCHANGED <<costMatrix, pc, queue, bestCost, bestPath, allSteps, stepCounter,
                   last, result, steps, currentStepIndex, isRunning, pushed,
                   currentStep, cities, appResult, isAutoPlaying, runs>>
    /\ UNCHANGED leafCall

\* MatrixEditor.handleConfirm and handleMatrixConfirmed
MatrixConfirmed ==
    /\ currentStep = "matrix"
    /\ isValidMatrix(editorMatrix, Len(cities))
    /\ costMatrix' = editorMatrix
    /\ currentStep' = "algorithm"
    /\ editorMatrix' = <<>>
    /\ units' = [units EXCEPT !.cost = units.editor, !.editor = 1]
    /\ RemountAlgorithm
    /\ UNCHANGED <<cities, appResult, isRunning, edits, runs>>
    /\ UNCHANGED leafCall

\* where a click on the progress button `step` leads
NavigationTarget(step) ==
    IF step = "cities" THEN "cities"
    ELSE IF step = "matrix" /\ Len(cities) >= 3 THEN "matrix"
    ELSE IF step = "algorithm" /\ Len(cities) >= 3 /\ Len(costMatrix) > 0
         THEN "algorithm"
    ELSE IF step = "result" /\ ~appResult.null THEN "result"
    ELSE currentStep

\* a click on one of the four progress buttons
Navigate(step) ==
    /\ pc # "search"
    /\ ~EffectPending
    /\ NavigationTarget(step) # currentStep
    /\ currentStep' = NavigationTarget(step)
    /\ editorMatrix' = MountedEditor(NavigationTarget(step), costMatrix, cities)
    /\ units' = [units EXCEPT !.editor = MountedUnit(NavigationTarget(step), costMatrix,
                                                      cities, units.cost)]
    /\ RemountAlgorithm
    /\ UNCHANGED <<costMatrix, cities, appResult, isRunning, edits, runs>>
    /\ UNCHANGED leafCall

\* resetApp, behind the button shown on every step but the first
ResetApp ==
    /\ currentStep # "cities"
    /\ pc # "search"
    /\ ~EffectPending
    /\ cities' = <<>>
    /\ costMatrix' = <<>>
    /\ appResult' = NullResult
    /\ currentStep' = "cities"
    /\ isRunning' = FALSE
    /\ editorMatrix' = <<>>
    /\ units' = WholeUnits
    /\ edits' = 0
    /\ runs' = 0
    /\ RemountAlgorithm
    /\ UNCHANGED leafCall

\* resetApp clicked while the effect is pending: the effect then runs with
\* the costMatrix of its own render, and the updates of onComplete are
\* applied after those of resetApp
ResetAppBeforeEffect ==
    /\ EffectPending
    /\ \E r \in {solveTSP(costMatrix)} :
           /\ cities' = <<>>
           /\ costMatrix' = <<>>
           /\ appResult' = r
           /\ currentStep' = IF r.null THEN "cities" ELSE "result"
           /\ isRunning' = FALSE
           /\ editorMatrix' = <<>>
           /\ units' = [WholeUnits EXCEPT !.result = units.cost]
           /\ UNCHANGED <<edits, runs>>
           /\ RemountAlgorithm
    /\ UNCHANGED leafCall

WizardNext ==
    \/ \E n \in MIN_CITIES .. MaxCities : CitiesConfirmed(n)
    \/ \E i, j \in 0 .. (Len(cities) - 1) : \E value \in TypedTexts : UpdateMatrix(i, j, value)
    \/ GenerateRandomMatrix
    \/ MakeSymmetric
    \/ MatrixConfirmed
    \/ \E step \in {"cities", "matrix", "algorithm", "result"} : Navigate(step)
    \/ ResetApp
    \/ ResetAppBeforeEffect
    \/ PlaybackNext

WizardSpec == WizardInit /\ [][WizardNext]_vars

\* ------------------------------------------------------------------------
\* The abbreviated copy of the engine (nodes carry `path`, the only sentinel
\* is Infinity, the search stops at level n - 1)
\* ------------------------------------------------------------------------

\* JavaScript's Infinity: above every sum of costs of the model
Infinity == 2000000000

\* the minimum of a line as the reductions compute it: Infinity when the line
\* has no finite cell
AbbreviatedMin(line) ==
    IF \A k \in 1 .. Len(line) : line[k] = Infinity THEN Infinity
    ELSE CHOOSE x \in {line[k] : k \in 1 .. Len(line)} :
             \A k \in 1 .. Len(line) : x <= line[k]

\* the row reduction of the abbreviated reduceMatrix
AbbreviatedRowReduced(m) ==
    [r \in 1 .. Len(m) |->
        [c \in 1 .. Len(m) |->
            IF m[r][c] # Infinity /\ AbbreviatedMin(m[r]) # Infinity /\ AbbreviatedMin(m[r]) > 0
            THEN m[r][c] - AbbreviatedMin(m[r]) ELSE m[r][c]]]

\* column c of m
AbbreviatedColumn(m, c) == [r \in 1 .. Len(m) |-> m[r][c]]

\* what a reduction adds to the bound for a line of minimum `min`
AbbreviatedSubtracted(min) == IF min # Infinity /\ min > 0 THEN min ELSE 0

\* reduceMatrix of the abbreviated copy: rows, then columns of the result
abbreviatedReduceMatrix(m) ==
    LET rows == AbbreviatedRowReduced(m)
    IN  [matrix |->
            [r \in 1 .. Len(m) |->
                [c \in 1 .. Len(m) |->
                    IF rows[r][c] # Infinity
                       /\ AbbreviatedSubtracted(AbbreviatedMin(AbbreviatedColumn(rows, c))) > 0
                    THEN rows[r][c] - AbbreviatedMin(AbbreviatedColumn(rows, c))
                    ELSE rows[r][c]]],
         reduction |->
            SumSeq([r \in 1 .. Len(m) |-> AbbreviatedSubtracted(AbbreviatedMin(m[r]))])
            + SumSeq([c \in 1 .. Len(m) |->
                         AbbreviatedSubtracted(AbbreviatedMin(AbbreviatedColumn(rows, c)))])]

\* the least of the cells of a line outside position `skip`, 0 when it is
\* Infinity
AbbreviatedOtherMin(line, skip) ==
    LET others == {line[k] : k \in (1 .. Len(line)) \ {skip}}
        least  == CHOOSE x \in others : \A y \in others : x <= y
    IN  IF least = Infinity THEN 0 ELSE least

\* calculateRegrets of the abbreviated copy
abbreviatedCalculateRegrets(m) ==
    [r \in 1 .. Len(m) |->
        [c \in 1 .. Len(m) |->
            IF m[r][c] = 0
            THEN AbbreviatedOtherMin(m[r], c) + AbbreviatedOtherMin(AbbreviatedColumn(m, c), r)
            ELSE 0]]

\* findMaxRegret of the abbreviated copy, scanning from cell k in row-major
\* order: a later cell wins only with a strictly greater regret
RECURSIVE AbbreviatedScan(_, _, _, _)
AbbreviatedScan(m, regrets, k, best) ==
    IF k >= Len(m) * Len(m) THEN best
    ELSE LET i == k \div Len(m)
             j == k % Len(m)
         IN  IF m[i + 1][j + 1] = 0 /\ regrets[i + 1][j + 1] > best[3]
             THEN AbbreviatedScan(m, regrets, k + 1, <<i, j, regrets[i + 1][j + 1]>>)
             ELSE AbbreviatedScan(m, regrets, k + 1, best)

abbreviatedFindMaxRegret(m, regrets) == AbbreviatedScan(m, regrets, 0, <<-1, -1, -1>>)

\* a node of the abbreviated copy
AbbreviatedNode(matrix, bound, path, excluded, level) ==
    [matrix |-> matrix, bound |-> bound, path |-> path,
     excluded |-> excluded, level |-> level]

\* the cities of 0 .. n - 1 that are not in path, in increasing order
RECURSIVE remainingNodes(_, _, _)
remainingNodes(path, n, i) ==
    IF i >= n THEN <<>>
    ELSE IF \E k \in 1 .. Len(path) : path[k] = i
         THEN remainingNodes(path, n, i + 1)
         ELSE <<i>> \o remainingNodes(path, n, i + 1)

\* a leaf test that completes the path when at most two cities are missing
AbbreviatedLeafAtMostTwo(path, n) == Len(remainingNodes(path, n, 0)) <= 2

\* `if (remainingNodes.length === 2)`
AbbreviatedLeaf(path, n) == Len(remainingNodes(path, n, 0)) = 2

\* one pass through the body of the abbreviated `while (queue.length > 0)`
AbbreviatedLoopBody(cm, q, best, path, trace, counter) ==
    LET n       == Len(cm)
        sorted  == SortByBound(q)
        node    == Head(sorted)
        rest    == Tail(sorted)
        regrets == abbreviatedCalculateRegrets(node.matrix)
        max     == abbreviatedFindMaxRegret(node.matrix, regrets)
        maxI    == max[1]
        maxJ    == max[2]
        exclude == abbreviatedReduceMatrix(
                       [node.matrix EXCEPT ![maxI + 1][maxJ + 1] = Infinity])
        excludeBound == node.bound + exclude.reduction
        afterExclude ==
            IF excludeBound < best
            THEN Append(rest, AbbreviatedNode(exclude.matrix, excludeBound, node.path,
                                              Append(node.excluded, <<maxI, maxJ>>),
                                              node.level))
            ELSE rest
        include == abbreviatedReduceMatrix(
                       [r \in 1 .. n |->
                           [c \in 1 .. n |->
                               IF r = maxI + 1 \/ c = maxJ + 1
                                  \/ (r = maxJ + 1 /\ c = maxI + 1)
                               THEN Infinity ELSE node.matrix[r][c]]])
        includeBound == node.bound + include.reduction
        finalPath == node.path \o remainingNodes(node.path, n, 0)
        Same(kind) ==
            [queue |-> rest, bestCost |-> best, bestPath |-> path,
             allSteps |-> trace, stepCounter |-> counter,
             last |-> Iteration(kind, node, NoArc, 0, 0, FALSE, FALSE, <<>>, <<>>, <<>>)]
    IN  IF node.bound >= best THEN Same("prune")
        ELSE IF node.level = n - 1 THEN
            IF AbbreviatedLeaf(node.path, n) /\ calculateTourCost(finalPath, cm) < best
            THEN [Same("leaf") EXCEPT !.bestCost = calculateTourCost(finalPath, cm),
                                      !.bestPath = finalPath]
            ELSE Same("leaf")
        ELSE IF maxI = -1 THEN Same("nozero")
        ELSE [queue |->
                 IF includeBound < best
                 THEN Append(afterExclude,
                             AbbreviatedNode(include.matrix, includeBound,
                                             node.path \o <<maxI, maxJ>>,
                                             node.excluded, node.level + 1))
                 ELSE afterExclude,
              bestCost |-> best, bestPath |-> path,
              allSteps |-> trace \o
                  <<LittleStep(counter, "regret", node.matrix, node.bound,
                               <<maxI, maxJ>>, regrets),
                    LittleStep(counter + 1, "branch", include.matrix, includeBound,
                               NoArc, <<>>)>>,
              stepCounter |-> counter + 2,
              last |-> Iteration("branch", node, <<maxI, maxJ>>, excludeBound,
                                 includeBound, excludeBound < best, includeBound < best,
                                 regrets, <<>>, <<>>)]

\* the inputs of the abbreviated copy
AbbreviatedMatrices ==
    MatricesOver(2, SmallCosts) \cup MatricesOver(3, SmallCosts) \cup {ExampleMatrix}

AbbreviatedInit ==
    /\ costMatrix \in AbbreviatedMatrices
    /\ currentStep = "algorithm"
    /\ cities = CityList(Len(costMatrix))
    /\ editorMatrix = <<>>
    /\ units = WholeUnits
    /\ edits = 0
    /\ runs = 0
    /\ appResult = NullResult
    /\ pushed = <<>>
    /\ pc = "idle"
    /\ queue = <<>>
    /\ bestCost = Infinity
    /\ bestPath = <<>>
    /\ allSteps = <<>>
    /\ stepCounter = 1
    /\ last = NoIteration
    /\ result = NullResult
    /\ steps = <<>>
    /\ currentStepIndex = -1
    /\ isRunning = FALSE
    /\ isAutoPlaying = FALSE
    /\ leafCall = NoLeafCall

\* startAlgorithm of the abbreviated copy up to the loop of its solveTSP
AbbreviatedStart ==
    /\ currentStep = "algorithm"
    /\ pc = "idle"
    /\ ~isRunning
    /\ IF Len(costMatrix) < 3
       THEN /\ result' = NullResult
            /\ isRunning' = FALSE
            /\ pc' = "returned"
            /\ UNCHANGED <<queue, allSteps, stepCounter, last>>
       ELSE \E root \in {abbreviatedReduceMatrix(
                            [r \in 1 .. Len(costMatrix) |->
                                [c \in 1 .. Len(costMatrix) |->
                                    IF r = c THEN Infinity ELSE costMatrix[r][c]]])} :
                /\ allSteps' = <<LittleStep(1, "reduction", root.matrix,
                                            root.reduction, NoArc, <<>>)>>
                /\ stepCounter' = 2
                /\ queue' = <<AbbreviatedNode(root.matrix, root.reduction, <<>>, <<>>, 0)>>
                /\ last' = Iteration("root", queue'[1], NoArc, 0, 0, FALSE, FALSE,
                                     <<>>, <<>>, <<>>)
                /\ isRunning' = TRUE
                /\ pc' = "search"
                /\ UNCHANGED result
    /\ UNCHANGED <<costMatrix, bestCost, bestPath, steps, currentStepIndex, pushed, appVars, isAutoPlaying>>
    /\ UNCHANGED leafCall

\* one iteration of the abbreviated loop
AbbreviatedProcessNode ==
    /\ pc = "search"
    /\ queue # <<>>
    /\ \E next \in {AbbreviatedLoopBody(costMatrix, queue, bestCost, bestPath,
                                        allSteps, stepCounter)} :
           /\ queue' = next.queue
           /\ bestCost' = next.bestCost
           /\ bestPath' = next.bestPath
           /\ allSteps' = next.allSteps
           /\ stepCounter' = next.stepCounter
           /\ last' = next.last
    /\ UNCHANGED <<costMatrix, pc, result, steps, currentStepIndex, isRunning, pushed, appVars, isAutoPlaying>>
    /\ UNCHANGED leafCall

\* the abbreviated loop ends: the 'final' record, the returned object, and
\* startAlgorithm stores the trace
AbbreviatedReturn ==
    /\ pc = "search"
    /\ queue = <<>>
    /\ allSteps' = Append(allSteps, LittleStep(stepCounter, "final", <<>>, bestCost,
                                               NoArc, <<>>))
    /\ result' = TSPResult(bestPath, bestCost, allSteps')
    /\ stepCounter' = stepCounter + 1
    /\ steps' = allSteps'
    /\ currentStepIndex' = 0
    /\ pc' = "returned"
    /\ UNCHANGED <<costMatrix, queue, bestCost, bestPath, last, isRunning, pushed, appVars, isAutoPlaying>>
    /\ UNCHANGED leafCall

\* the abbreviated solveTSP as a function of its input: the loop run from
\* the given locals until the queue is empty, the 'final' record and the
\* object returned
RECURSIVE AbbreviatedRun(_, _, _, _, _, _)
AbbreviatedRun(cm, q, best, path, trace, counter) ==
    IF q = <<>>
    THEN TSPResult(path, best,
                   Append(trace, LittleStep(counter, "final", <<>>, best, NoArc, <<>>)))
    ELSE LET next == AbbreviatedLoopBody(cm, q, best, path, trace, counter)
         IN  AbbreviatedRun(cm, next.queue, next.bestCost, next.bestPath,
                            next.allSteps, next.stepCounter)

\* abbreviated solveTSP(cm)
abbreviatedSolveTSP(cm) ==
    IF Len(cm) < 3 THEN NullResult
    ELSE LET root == abbreviatedReduceMatrix(
                         [r \in 1 .. Len(cm) |->
                             [c \in 1 .. Len(cm) |-> IF r = c THEN Infinity ELSE cm[r][c]]])
         IN  AbbreviatedRun(cm, <<AbbreviatedNode(root.matrix, root.reduction, <<>>, <<>>, 0)>>,
                            Infinity, <<>>,
                            <<LittleStep(1, "reduction", root.matrix, root.reduction,
                                         NoArc, <<>>)>>, 2)

\* the abbreviated copy is unmounted or mounted anew: its state and the
\* locals of its solveTSP are those of a fresh component
AbbreviatedRemount ==
    /\ pc' = "idle"
    /\ queue' = <<>>
    /\ bestCost' = Infinity
    /\ bestPath' = <<>>
    /\ allSteps' = <<>>
    /\ stepCounter' = 1
    /\ last' = NoIteration
    /\ pushed' = <<>>
    /\ result' = NullResult
    /\ steps' = <<>>
    /\ currentStepIndex' = -1
    /\ isAutoPlaying' = FALSE

\* onComplete(r) called by the abbreviated copy: handleAlgorithmComplete
\* stores r and shows the result step, which unmounts the component
AbbreviatedOnComplete(r) ==
    /\ appResult' = r
    /\ currentStep' = "result"
    /\ isRunning' = FALSE
    /\ units' = [units EXCEPT !.result = units.cost]
    /\ AbbreviatedRemount
    /\ UNCHANGED <<costMatrix, cities, editorMatrix, edits, runs>>

\* the auto-play effect of the abbreviated copy once auto-play is on and the
\* index is `index`: at the last step it turns auto-play off, calls solveTSP
\* again and hands the result to onComplete; before the last step it only
\* arms the timer
AbbreviatedAutoPlayEffect(index) ==
    IF index = Len(steps) - 1
    THEN \E r \in {abbreviatedSolveTSP(costMatrix)} :
             IF r.null
             THEN /\ isAutoPlaying' = FALSE
                  /\ currentStepIndex' = index
                  /\ UNCHANGED <<costMatrix, pc, queue, bestCost, bestPath, allSteps,
                                 stepCounter, last, result, steps, isRunning, pushed,
                                 appVars>>
             ELSE AbbreviatedOnComplete(r)
    ELSE /\ isAutoPlaying' = TRUE
         /\ currentStepIndex' = index
         /\ UNCHANGED <<costMatrix, pc, queue, bestCost, bestPath, allSteps,
                        stepCounter, last, result, steps, isRunning, pushed, appVars>>

\* toggleAutoPlay of the abbreviated copy, and the effect that follows when
\* auto-play is turned on
AbbreviatedToggleAutoPlay ==
    /\ currentStep = "algorithm"
    /\ pc # "search"
    /\ isRunning
    /\ ~EffectPending
    /\ IF isAutoPlaying
       THEN /\ isAutoPlaying' = FALSE
            /\ UNCHANGED <<costMatrix, pc, queue, bestCost, bestPath, allSteps,
                           stepCounter, last, result, steps, currentStepIndex,
                           isRunning, pushed, appVars>>
       ELSE AbbreviatedAutoPlayEffect(currentStepIndex)
    /\ UNCHANGED leafCall

\* the timer armed by the effect fires: nextStep() moves the index and
\* returns; the effect of the render that follows runs later
AbbreviatedAutoPlayTick ==
    /\ currentStep = "algorithm"
    /\ pc # "search"
    /\ isAutoPlaying
    /\ currentStepIndex < Len(steps) - 1
    /\ currentStepIndex' = currentStepIndex + 1
    /\ UNCHANGED <<costMatrix, pc, queue, bestCost, bestPath, allSteps, stepCounter,
                   last, result, steps, isRunning, pushed, appVars, isAutoPlaying>>
    /\ UNCHANGED leafCall

\* the pending effect runs at the last step: setIsAutoPlaying(false),
\* solveTSP() and onComplete(result); a click on toggle or reset that falls
\* before it ends in the same state
AbbreviatedAutoPlayComplete ==
    /\ EffectPending
    /\ AbbreviatedAutoPlayEffect(currentStepIndex)
    /\ UNCHANGED leafCall

\* a click on "Suivant" (disabled at the last step and during auto-play)
AbbreviatedNextStep ==
    /\ currentStep = "algorithm"
    /\ pc # "search"
    /\ isRunning
    /\ ~isAutoPlaying
    /\ currentStepIndex < Len(steps) - 1
    /\ currentStepIndex' = currentStepIndex + 1
    /\ UNCHANGED <<costMatrix, pc, queue, bestCost, bestPath, allSteps, stepCounter,
                   last, result, steps, isRunning, pushed, appVars, isAutoPlaying>>
    /\ UNCHANGED leafCall

\* reset of the abbreviated copy: the trace is dropped and the start button
\* comes back
AbbreviatedReset ==
    /\ currentStep = "algorithm"
    /\ pc # "search"
    /\ isRunning
    /\ ~EffectPending
    /\ isRunning' = FALSE
    /\ AbbreviatedRemount
    /\ UNCHANGED <<costMatrix, appVars>>
    /\ UNCHANGED leafCall

AbbreviatedNext ==
    \/ AbbreviatedStart
    \/ AbbreviatedProcessNode
    \/ AbbreviatedReturn
    \/ AbbreviatedToggleAutoPlay
    \/ AbbreviatedAutoPlayTick
    \/ AbbreviatedAutoPlayComplete
    \/ AbbreviatedNextStep
    \/ AbbreviatedReset

AbbreviatedSpec == AbbreviatedInit /\ [][AbbreviatedNext]_vars

\* ------------------------------------------------------------------------
\* Reference notions used by the properties
\* ------------------------------------------------------------------------

\* solveTSP has returned a result object (not null)
ReturnedResult == pc = "returned" /\ ~result.null

\* every Hamiltonian cycle of the cities of cm, as the order of visit from city 0
Tours(cm) ==
    {p \in [1 .. Len(cm) -> Cities(cm)] :
        /\ p[1] = 0
        /\ \A a, b \in 1 .. Len(cm) : a # b => p[a] # p[b]}

\* the cost of the cheapest Hamiltonian cycle, on the original entries
MinTourCost(cm) ==
    LET costs == {calculateTourCost(p, cm) : p \in Tours(cm)}
    IN  CHOOSE x \in costs : \A y \in costs : x <= y

\* the bound of the first record of the trace
RootBound == allSteps[1].bound

\* the nodes that the latest iteration appended to the frontier
NewNodes(before, after) ==
    {after[k] : k \in Len(before) .. Len(after)}

\* ------------------------------------------------------------------------
\* Properties
\* ------------------------------------------------------------------------

\* C1: the cost returned by solveTSP is the minimum, over all Hamiltonian
\* cycles, of the sum of the original entries along the cycle.
C1_ReturnsOptimalCost ==
    ReturnedResult => result.cost = MinTourCost(costMatrix)

\* C2: the returned path is a permutation of the n cities: n entries, no
\* repeat, no omission.
C2_PathIsPermutation ==
    ReturnedResult =>
        /\ Len(result.path) = Len(costMatrix)
        /\ {result.path[k] : k \in 1 .. Len(result.path)} = Cities(costMatrix)

\* C3: the returned cost is the sum of the original entries along the
\* returned path, closing edge included.
C3_CostIsSumAlongPath ==
    ReturnedResult => result.cost = calculateTourCost(result.path, costMatrix)

\* C4: for a fully connected matrix the loop never ends without a node of
\* level n having been assembled into a tour that updated the incumbent.
C4_LeafFoundBeforeLoopEnds ==
    (pc = "search" /\ queue = <<>>) \/ ReturnedResult =>
        /\ bestCost < INF
        /\ Len(bestPath) = Len(costMatrix)

\* C5: the root bound is at most the cost of every Hamiltonian cycle, and
\* the returned cost is never below the root bound.
C5_RootBoundIsLowerBound ==
    ReturnedResult =>
        /\ \A p \in Tours(costMatrix) : RootBound <= calculateTourCost(p, costMatrix)
        /\ RootBound <= result.cost

\* the first half of C5 alone: the root bound is at most the cost of every
\* Hamiltonian cycle
RootBoundBelowEveryTour ==
    pc # "idle" /\ allSteps # <<>> =>
        \A p \in Tours(costMatrix) : RootBound <= calculateTourCost(p, costMatrix)

\* C6: for every popped node that branches, the bound computed for the
\* exclude child and the bound computed for the include child are at least
\* the bound of the popped node.
C6_ChildBoundsNotBelowParent ==
    last.kind \in {"branch", "cycle"} =>
        /\ last.excludeBound >= last.bound
        /\ last.includeBound >= last.bound

\* a node has branched and both of its children have a greater bound
C6_Witness ==
    /\ last.kind = "branch"
    /\ last.excludeBound > last.bound
    /\ last.includeBound > last.bound

\* C8: a popped node whose bound is at least the incumbent cost is dropped
\* without a step record, a child or a change of the incumbent, and no node
\* is appended to the frontier whose bound is not strictly below the incumbent.
C8_PrunedNodeHasNoEffect ==
    [][(pc = "search" /\ queue # <<>>) =>
          /\ Head(SortByBound(queue)).bound >= bestCost =>
                /\ allSteps' = allSteps
                /\ stepCounter' = stepCounter
                /\ queue' = Tail(SortByBound(queue))
                /\ bestCost' = bestCost
                /\ bestPath' = bestPath
          /\ \A node \in NewNodes(queue, queue') : node.bound < bestCost
      ]_vars

\* a node has been popped with a bound that is not below the incumbent
C8_Witness ==
    /\ last.kind = "prune"
    /\ last.bound >= bestCost

\* a node has branched and its exclude child, with a bound not below the
\* incumbent, was not pushed
ChildNotPushed ==
    /\ last.kind = "branch"
    /\ last.excludeBound >= bestCost
    /\ ~last.pushedExclude

\* C9: with fewer than 3 rows solveTSP returns null and builds no step
\* record, no frontier node and no partial result; startAlgorithm leaves
\* steps empty, currentStepIndex at -1 and isRunning false.
C9_RefusesFewerThanThreeCities ==
    Len(costMatrix) < 3 =>
        /\ result.null
        /\ allSteps = <<>>
        /\ queue = <<>>
        /\ bestPath = <<>>
        /\ steps = <<>>
        /\ currentStepIndex = -1
        /\ ~isRunning
        /\ pc \in {"idle", "returned"}

\* startAlgorithm has run on a matrix with fewer than 3 rows
C9_Witness ==
    /\ Len(costMatrix) < 3
    /\ pc = "returned"

\* C10: when the loop ends without a feasible leaf, solveTSP does not return
\* a result with an empty path and the placeholder cost, and the trace has
\* no 'final' record.
C10_NoDegenerateResult ==
    (ReturnedResult /\ bestPath = <<>>) =>
        /\ ~(result.path = <<>> /\ result.cost = INF)
        /\ \A k \in 1 .. Len(result.steps) : result.steps[k].type # "final"


\* ------------------------------------------------------------------------
\* The wizard and the trace of the search
\* ------------------------------------------------------------------------

\* a valid cost matrix: square, every entry off the diagonal positive
ValidCostMatrix(m) ==
    \A i, j \in Cities(m) : i # j => Cell(m, i, j) > 0

\* C11: whatever the user does in the wizard, the algorithm step is shown,
\* and solveTSP is run, only on a cost matrix all of whose entries off the
\* diagonal are positive: an invalid matrix is rejected before the engine.
C11_InvalidMatrixNeverReachesEngine ==
    (currentStep = "algorithm" \/ pc # "idle") => ValidCostMatrix(costMatrix)

\* C12: the returned trace starts with a 'reduction' record carrying the root
\* bound and ends with a 'final' record carrying the returned cost; that
\* 'final' record is the only one of the trace.
C12_TraceStartsReducedEndsFinal ==
    ReturnedResult =>
        LET trace == result.steps
        IN  /\ Len(trace) >= 2
            /\ trace[1].type = "reduction"
            /\ trace[1].bound = reduceMatrix(initialMatrix(costMatrix)).reduction
            /\ trace[Len(trace)].type = "final"
            /\ trace[Len(trace)].bound = result.cost
            /\ \A k \in 1 .. (Len(trace) - 1) : trace[k].type # "final"

\* a returned trace with branching between its first and its last record
C12_Witness ==
    /\ ReturnedResult
    /\ \E k \in 1 .. Len(result.steps) : result.steps[k].type = "branch"
    /\ result.steps[1].bound > 0

\* ------------------------------------------------------------------------
\* The reference reduction: the n rows in order, then the n columns in order,
\* each line reduced in the matrix left by the lines before it
\* ------------------------------------------------------------------------

\* the cells of line k: lines 0 .. n-1 are the rows, n .. 2n-1 the columns
ReferenceLine(n, k) ==
    IF k < n THEN {<<k, j>> : j \in 0 .. (n - 1)}
    ELSE {<<i, k - n>> : i \in 0 .. (n - 1)}

\* the cells of line k that hold a cost, not a sentinel
CostCells(m, k) ==
    {c \in ReferenceLine(Len(m), k) : Cell(m, c[1], c[2]) \notin {INF, EXCLUDED}}

RECURSIVE ReferenceReduceFrom(_, _, _)
ReferenceReduceFrom(m, total, k) ==
    IF k = 2 * Len(m) THEN [matrix |-> m, reduction |-> total]
    ELSE IF CostCells(m, k) = {} THEN ReferenceReduceFrom(m, total, k + 1)
    ELSE LET least == CHOOSE c \in CostCells(m, k) :
                          \A d \in CostCells(m, k) :
                              Cell(m, c[1], c[2]) <= Cell(m, d[1], d[2])
             min == Cell(m, least[1], least[2])
             reduced == [r \in 1 .. Len(m) |->
                            [c \in 1 .. Len(m) |->
                                IF <<r - 1, c - 1>> \in CostCells(m, k)
                                THEN m[r][c] - min ELSE m[r][c]]]
         IN  IF min > 0 THEN ReferenceReduceFrom(reduced, total + min, k + 1)
             ELSE ReferenceReduceFrom(m, total, k + 1)

ReferenceReduction(m) == ReferenceReduceFrom(m, 0, 0)

\* a line of m made of sentinels only
AllSentinelLine(m, k) == CostCells(m, k) = {}

\* the calls of reduceMatrix made by the latest step of solveTSP
ReduceCalls == {last.calls[k] : k \in 1 .. Len(last.calls)}

\* C13: every call of reduceMatrix returns the reference reduction of its
\* argument: the matrix and the sum of the subtracted minima; the sentinel
\* cells come back unchanged, and a line of sentinels only is left as it is.
C13_ReduceMatrixIsReferenceReduction ==
    \A call \in ReduceCalls :
        /\ call.output = ReferenceReduction(call.input)
        /\ \A i, j \in Cities(call.input) :
               Cell(call.input, i, j) \in {INF, EXCLUDED}
                   => Cell(call.output.matrix, i, j) = Cell(call.input, i, j)
        /\ \A k \in 0 .. (2 * Len(call.input) - 1) :
               AllSentinelLine(call.input, k) =>
                   \A c \in ReferenceLine(Len(call.input), k) :
                       Cell(call.output.matrix, c[1], c[2]) = Cell(call.input, c[1], c[2])

\* a call on a matrix with a line of sentinels only, an excluded cell, and a
\* column that is reduced after the rows were
C13_Witness ==
    \E call \in ReduceCalls :
        /\ \E k \in 0 .. (2 * Len(call.input) - 1) : AllSentinelLine(call.input, k)
        /\ \E i, j \in Cities(call.input) : Cell(call.input, i, j) = EXCLUDED
        /\ RowReduced(call.input) # call.input
        /\ call.output.matrix # RowReduced(call.input)

\* C14: reduceMatrix is pure. After each call the argument holds what it
\* held before, the returned matrix shares no row with the argument, and the
\* matrix of the parent node is what it was before the reduction.
C14_ReduceMatrixIsPure ==
    \A call \in ReduceCalls :
        /\ call.inputAfter = call.input
        /\ call.sharedRows = {}
        /\ call.parentAfter = call.parent
        /\ call.returned = call.output.matrix

\* a reduction while branching that subtracted something: the returned
\* matrix differs from the argument, which differs from the parent's matrix
C14_Witness ==
    /\ last.kind = "branch"
    /\ \A call \in ReduceCalls :
           /\ call.output.reduction > 0
           /\ call.returned # call.input
           /\ call.input # call.parent

\* ------------------------------------------------------------------------
\* Regrets and the selection of the arc
\* ------------------------------------------------------------------------

\* the least value of S, 0 when S is empty
LeastOrZero(S) == IF S = {} THEN 0 ELSE CHOOSE x \in S : \A y \in S : x <= y

\* the costs (cells that are no sentinel) of row i outside column j, and of
\* column j outside row i
RowAlternatives(m, i, j) ==
    {Cell(m, i, k) : k \in Cities(m) \ {j}} \ {INF, EXCLUDED}

ColAlternatives(m, i, j) ==
    {Cell(m, k, j) : k \in Cities(m) \ {i}} \ {INF, EXCLUDED}

ReferenceRegret(m, i, j) ==
    IF Cell(m, i, j) = 0
    THEN LeastOrZero(RowAlternatives(m, i, j)) + LeastOrZero(ColAlternatives(m, i, j))
    ELSE 0

\* the latest iteration computed the regrets of the popped node's matrix
RegretsComputed == last.kind \in {"nozero", "cycle", "branch"}

\* C15: the regret of a zero cell is the least cost of its row outside its
\* column plus the least cost of its column outside its row, a missing
\* least cost counting as 0; the regret of any other cell is 0.
C15_RegretsAreReferenceRegrets ==
    RegretsComputed =>
        \A i, j \in Cities(last.node.matrix) :
            Cell(last.regrets, i, j) = ReferenceRegret(last.node.matrix, i, j)

\* regrets of a matrix with a zero cell of positive regret, a zero cell
\* with no alternative in its row, and a cell that is not zero
C15_Witness ==
    /\ RegretsComputed
    /\ \E i, j \in Cities(last.node.matrix) :
           Cell(last.node.matrix, i, j) = 0 /\ Cell(last.regrets, i, j) > 0
    /\ \E i, j \in Cities(last.node.matrix) :
           /\ Cell(last.node.matrix, i, j) = 0
           /\ RowAlternatives(last.node.matrix, i, j) = {}
    /\ \E i, j \in Cities(last.node.matrix) :
           Cell(last.node.matrix, i, j) \notin {0, INF, EXCLUDED}

\* the cells of m that hold exactly 0
ZeroCells(m) == {c \in Cities(m) \X Cities(m) : Cell(m, c[1], c[2]) = 0}

\* cell a comes before cell b in the row-major order of an n x n matrix
RowMajorBefore(n, a, b) == a[1] * n + a[2] < b[1] * n + b[2]

\* the arc recorded by iteration `it` is the first zero cell, in row-major
\* order, among those of greatest regret; no arc when there is no zero cell
SelectsFirstMaxRegret(it) ==
    LET m == it.node.matrix
    IN  IF ZeroCells(m) = {} THEN it.kind = "nozero" /\ it.arc = NoArc
        ELSE /\ it.kind \in {"branch", "cycle"}
             /\ it.arc \in ZeroCells(m)
             /\ \A c \in ZeroCells(m) :
                    /\ Cell(it.regrets, c[1], c[2]) <= Cell(it.regrets, it.arc[1], it.arc[2])
                    /\ Cell(it.regrets, c[1], c[2]) = Cell(it.regrets, it.arc[1], it.arc[2])
                           => ~RowMajorBefore(Len(m), c, it.arc)

\* C16: the arc selected is the zero cell of greatest regret, the first in
\* row-major order among equals; when the popped matrix has no zero cell the
\* node is dropped: no record is added, nothing is pushed, and the loop goes
\* on with the rest of the frontier.
C16_SelectsFirstZeroCellOfMaxRegret ==
    [][ (ProcessNode /\ last'.kind \in {"nozero", "cycle", "branch"}) =>
            /\ SelectsFirstMaxRegret(last')
            /\ last'.kind = "nozero" =>
                   /\ allSteps' = allSteps
                   /\ stepCounter' = stepCounter
                   /\ pushed' = pushed
                   /\ Len(queue') = Len(queue) - 1
                   /\ \A k \in 1 .. Len(queue') : \E l \in 1 .. Len(queue) : queue'[k] = queue[l]
                   /\ bestCost' = bestCost /\ bestPath' = bestPath
                   /\ pc' = "search" ]_vars

\* a node without a zero cell has just been dropped, after a selection among
\* several zero cells of greatest regret, and after a selection at regret 0
C16_Witness ==
    /\ last.kind = "nozero"
    /\ \E k \in 1 .. Len(allSteps) :
           /\ allSteps[k].type = "regret"
           /\ \E c \in ZeroCells(allSteps[k].matrix) :
                  /\ c # allSteps[k].selectedArc
                  /\ Cell(allSteps[k].regrets, c[1], c[2])
                       = Cell(allSteps[k].regrets, allSteps[k].selectedArc[1],
                              allSteps[k].selectedArc[2])
    /\ \E k \in 1 .. Len(allSteps) :
           /\ allSteps[k].type = "regret"
           /\ Cell(allSteps[k].regrets, allSteps[k].selectedArc[1],
                   allSteps[k].selectedArc[2]) = 0

\* ------------------------------------------------------------------------
\* The frontier
\* ------------------------------------------------------------------------

\* the rank of a node in the order of the calls of queue.push
PushIndex(node) == CHOOSE k \in 1 .. Len(pushed) : pushed[k] = NodeKey(node)

\* the nodes of the frontier
Frontier(q) == {q[k] : k \in 1 .. Len(q)}

\* C17: the node removed by an iteration has the least bound of the
\* frontier, and was pushed before every other node of that bound.
C17_PopsLeastBoundEarliestPushed ==
    [][ ProcessNode =>
            /\ \A a, b \in 1 .. Len(pushed) : pushed[a] = pushed[b] => a = b
            /\ last'.node \in Frontier(queue)
            /\ \A other \in Frontier(queue) :
                   /\ last'.node.bound <= other.bound
                   /\ (other.bound = last'.node.bound /\ other # last'.node)
                          => PushIndex(last'.node) < PushIndex(other) ]_vars

\* the node just removed had the bound of a node that is still in the
\* frontier, was there before this iteration, and was pushed later, though
\* not right after it
C17_Witness ==
    /\ last.kind = "branch"
    /\ \E k \in 1 .. Len(queue) :
           /\ queue[k].bound = last.node.bound
           /\ NodeKey(queue[k]) \in {pushed[l] : l \in 1 .. (Len(pushed) - 2)}
           /\ PushIndex(queue[k]) > PushIndex(last.node) + 1

\* ------------------------------------------------------------------------
\* The two children of a node
\* ------------------------------------------------------------------------

\* the latest iteration selected an arc and branched on it
Branched(it) == it.kind \in {"branch", "cycle"}

\* the keys of the nodes pushed by the step
PushedByStep == {pushed'[k] : k \in (Len(pushed) + 1) .. Len(pushed')}

\* the exclude child of `parent` for arc (i, j), from the reference reduction
ReferenceExcludeChild(parent, i, j) ==
    LET excluded == [r \in 1 .. Len(parent.matrix) |->
                        [c \in 1 .. Len(parent.matrix) |->
                            IF r = i + 1 /\ c = j + 1 THEN -999
                            ELSE parent.matrix[r][c]]]
        reduced == ReferenceReduction(excluded)
    IN  [matrix       |-> reduced.matrix,
         bound        |-> parent.bound + reduced.reduction,
         includedArcs |-> parent.includedArcs,
         excluded     |-> parent.excluded \o << <<i, j>> >>,
         level        |-> parent.level]

\* C18: the exclude child is the parent with cell (i, j) at -999, reduced;
\* its bound adds that reduction to the parent's; level and included arcs
\* are the parent's, (i, j) is appended to the excluded arcs; it is pushed
\* exactly when its bound is below the incumbent cost.
C18_ExcludeChild ==
    [][ (ProcessNode /\ Branched(last')) =>
            \A child \in {ReferenceExcludeChild(last'.node, last'.arc[1], last'.arc[2])} :
                /\ last'.excludeBound = child.bound
                /\ (NodeKey(child) \in PushedByStep) <=> (child.bound < bestCost)
                /\ (NodeKey(child) \in PushedByStep) => child \in Frontier(queue')
                /\ \A other \in Frontier(queue') :
                       NodeKey(other) = NodeKey(child) => other = child ]_vars

\* an exclude child that was not pushed, its bound reaching the incumbent
\* cost, in a search that has pushed a node with an excluded arc and has
\* seen a bound above the root's
C18_Witness ==
    /\ last.kind = "branch"
    /\ last.excludeBound >= bestCost
    /\ ~last.pushedExclude
    /\ \E k \in 1 .. Len(pushed) : pushed[k][2] # <<>>
    /\ \E k \in 1 .. Len(allSteps) :
           allSteps[k].type = "branch" /\ allSteps[k].bound > allSteps[1].bound

\* the matrix of `parent` with row i, column j and cell (j, i) at -999
ReferenceIncludeMatrix(parent, i, j) ==
    [r \in 1 .. Len(parent.matrix) |->
        [c \in 1 .. Len(parent.matrix) |->
            IF r = i + 1 \/ c = j + 1 \/ <<r, c>> = <<j + 1, i + 1>> THEN -999
            ELSE parent.matrix[r][c]]]

\* the include child of `parent` for arc (i, j), reduced from `matrix`
ReferenceIncludeChild(parent, i, j, matrix) ==
    LET reduced == ReferenceReduction(matrix)
    IN  [matrix       |-> reduced.matrix,
         bound        |-> parent.bound + Cell(parent.matrix, i, j) + reduced.reduction,
         includedArcs |-> parent.includedArcs \o << <<i, j>> >>,
         excluded     |-> parent.excluded,
         level        |-> parent.level + 1]

\* the step pushed `child`, or left it out, as its bound tells
PushedIffBelowIncumbent(child) ==
    /\ (NodeKey(child) \in PushedByStep) <=> (child.bound < bestCost)
    /\ (NodeKey(child) \in PushedByStep) => child \in Frontier(queue')
    /\ \A other \in Frontier(queue') : NodeKey(other) = NodeKey(child) => other = child

\* C19 as stated: the bound of the include child is the parent's plus the
\* cost of the arc plus the reduction of the parent's matrix with row i,
\* column j and cell (j, i) at the sentinel; level, included and excluded
\* arcs as stated; pushed exactly when the bound is below the incumbent.
C19_IncludeChildAsStated ==
    [][ (ProcessNode /\ last'.kind = "branch") =>
            \A child \in {ReferenceIncludeChild(last'.node, last'.arc[1], last'.arc[2],
                             ReferenceIncludeMatrix(last'.node, last'.arc[1], last'.arc[2]))} :
                /\ last'.includeBound = child.bound
                /\ (NodeKey(child) \in PushedByStep) <=> (child.bound < bestCost)
                /\ \A other \in Frontier(queue') :
                       NodeKey(other) = NodeKey(child) =>
                           /\ other.bound = child.bound
                           /\ other.level = child.level ]_vars

\* m with the cells of the arcs `blocked` at -999
WithBlockedArcs(m, blocked) ==
    [r \in 1 .. Len(m) |->
        [c \in 1 .. Len(m) |->
            IF \E k \in 1 .. Len(blocked) : blocked[k] = <<r - 1, c - 1>> THEN -999
            ELSE m[r][c]]]

\* C19, amended: the include child is reduced from the parent's matrix with
\* row i, column j and cell (j, i) at the sentinel and with the arcs blocked
\* by blockSubtours at -999 too; its bound is the parent's plus the cost of
\* the arc plus that reduction; its level is the parent's plus 1, (i, j) is
\* appended to the included arcs, the excluded arcs are the parent's; it is
\* pushed exactly when its bound is below the incumbent cost.
C19_IncludeChild ==
    [][ (ProcessNode /\ last'.kind = "branch") =>
            \A child \in {ReferenceIncludeChild(last'.node, last'.arc[1], last'.arc[2],
                             WithBlockedArcs(
                                 ReferenceIncludeMatrix(last'.node, last'.arc[1], last'.arc[2]),
                                 last'.blockedArcs))} :
                /\ last'.includeBound = child.bound
                /\ PushedIffBelowIncumbent(child) ]_vars

\* an include child pushed at level 2 or more, after blockSubtours blocked
\* an arc that the inclusion itself had left open, and the reduction is not
\* what it would be with that arc open
C19_Witness ==
    /\ last.kind = "branch"
    /\ last.pushedInclude
    /\ last.level >= 1
    /\ last.blockedArcs # <<>>
    /\ last.includeBound # last.bound
           + ReferenceReduction(
                 ReferenceIncludeMatrix(last.node, last.arc[1], last.arc[2])).reduction
    /\ \E k \in 1 .. Len(queue) :
           /\ queue[k].includedArcs = last.node.includedArcs \o <<last.arc>>
           /\ queue[k].level = last.level + 1

\* ------------------------------------------------------------------------
\* The pairs of records of the trace
\* ------------------------------------------------------------------------

\* the 'branch' records of trace t numbered s, as buildTree looks them up
BranchStepsNumbered(t, s) ==
    {k \in 1 .. Len(t) : t[k].type = "branch" /\ t[k].step = s}

RegretBranchPaired(t) ==
    /\ \A k \in 1 .. Len(t) : t[k].step = k
    /\ \A k \in 1 .. Len(t) :
           t[k].type = "regret" =>
               /\ k < Len(t)
               /\ t[k + 1].type = "branch"
               /\ BranchStepsNumbered(t, t[k].step + 1) = {k + 1}
    /\ \A k \in 1 .. Len(t) :
           t[k].type = "branch" => k > 1 /\ t[k - 1].type = "regret"

\* C20: in the trace, while it is built and when it is returned, every
\* 'regret' record is followed at once by one 'branch' record numbered one
\* more, every 'branch' record follows a 'regret' record, and the records
\* are numbered 1, 2, ... without a gap.
C20_RegretBranchPairs ==
    /\ RegretBranchPaired(allSteps)
    /\ ReturnedResult => RegretBranchPaired(result.steps)

\* a returned trace with several regret/branch pairs
C20_Witness ==
    /\ ReturnedResult
    /\ \E k, l \in 1 .. Len(result.steps) :
           /\ k + 1 < l
           /\ result.steps[k].type = "regret"
           /\ result.steps[l].type = "regret"
           /\ result.steps[Len(result.steps)].step = Len(result.steps)

\* ---- C21: no subtour among the pushed nodes ----

\* the cities reached from the set S by exactly k of the arcs
RECURSIVE WalkOf(_, _, _)
WalkOf(arcs, S, k) ==
    IF k = 0 THEN S
    ELSE WalkOf(arcs, {arcs[a][2] : a \in {b \in 1 .. Len(arcs) : arcs[b][1] \in S}}, k - 1)

\* the arcs hold a directed cycle over fewer than n cities
HasSubtour(arcs, n) ==
    \E c \in 0 .. (n - 1) : \E k \in 1 .. (n - 1) : c \in WalkOf(arcs, {c}, k)

\* the cities the arcs connect to the cities of S, directions ignored
RECURSIVE ComponentOf(_, _)
ComponentOf(arcs, S) ==
    LET more == S \cup {arcs[a][2] : a \in {b \in 1 .. Len(arcs) : arcs[b][1] \in S}}
                  \cup {arcs[a][1] : a \in {b \in 1 .. Len(arcs) : arcs[b][2] \in S}}
    IN  IF more = S THEN S ELSE ComponentOf(arcs, more)

\* the arc of the iteration joins two cities its node's included arcs connect
JoinsConnected(it) ==
    it.arc[2] \in ComponentOf(it.node.includedArcs, {it.arc[1]})

\* C21: no node of the queue has included arcs that hold a directed cycle
\* over fewer than n cities; and when the arc chosen by an iteration joins two
\* cities that the included arcs of its node already connect, no include
\* child is pushed and the iteration ends with one 'branch' step record.
C21_NoSubtourPushed ==
    /\ \A node \in Frontier(queue) : ~HasSubtour(node.includedArcs, Len(costMatrix))
    /\ (pc = "search" /\ Branched(last) /\ JoinsConnected(last)) =>
            /\ ~last.pushedInclude
            /\ \A node \in Frontier(queue) :
                   node.includedArcs # Append(last.node.includedArcs, last.arc)
            /\ allSteps[Len(allSteps)].type = "branch"

\* a node of at least four cities is in the queue whose last included arc
\* extends a chain of its earlier included arcs
C21_Witness ==
    /\ Len(costMatrix) >= 4
    /\ pc = "search" /\ last.kind = "branch" /\ last.pushedInclude
    /\ \E k \in 1 .. Len(last.node.includedArcs) :
           \/ last.node.includedArcs[k][2] = last.arc[1]
           \/ last.node.includedArcs[k][1] = last.arc[2]
    /\ \E node \in Frontier(queue) :
           node.includedArcs = Append(last.node.includedArcs, last.arc)

\* ---- C22: the closing arc of a chain through all the cities ----

\* the arcs form a single chain through all n cities
SingleChainThroughAll(arcs, n) ==
    /\ Len(arcs) = n - 1
    /\ \A a, b \in 1 .. Len(arcs) :
           a # b => arcs[a][1] # arcs[b][1] /\ arcs[a][2] # arcs[b][2]
    /\ \A c \in 0 .. (n - 1) : \A k \in 1 .. n : c \notin WalkOf(arcs, {c}, k)
    /\ ComponentOf(arcs, {0}) = 0 .. (n - 1)

\* the first city of the chain: the one no arc enters
ChainStart(arcs, n) ==
    CHOOSE c \in 0 .. (n - 1) : \A k \in 1 .. Len(arcs) : arcs[k][2] # c

\* the last city of the chain: the one no arc leaves
ChainEnd(arcs, n) ==
    CHOOSE c \in 0 .. (n - 1) : \A k \in 1 .. Len(arcs) : arcs[k][1] # c

\* C22: when the included arcs of a pushed include child form a single chain
\* through all n cities, the arc from the end of the chain back to its start
\* is not blocked: it is not among the arcs the step blocked, and its cell in
\* the child's matrix is not -999.
C22_TourClosingArcAvailable ==
    \A arcs \in {Append(last.node.includedArcs, last.arc)} :
        (/\ pc = "search" /\ last.kind = "branch"
         /\ SingleChainThroughAll(arcs, Len(costMatrix))) =>
            \A end \in {ChainEnd(arcs, Len(costMatrix))} :
            \A start \in {ChainStart(arcs, Len(costMatrix))} :
                /\ \A k \in 1 .. Len(last.blockedArcs) :
                       last.blockedArcs[k] # <<end, start>>
                /\ \A node \in Frontier(queue) :
                       node.includedArcs = arcs =>
                           Cell(node.matrix, end, start) # EXCLUDED

\* ---- C23: the leaf branch on the arcs a node of level n can hold ----

\* a 3-city matrix whose two tours cost 3 and 6
LeafMatrix == <<<<0, 1, 2>>, <<2, 0, 1>>, <<1, 2, 0>>>>

\* the matrices of the leaf tests
LeafMatrices == {LeafMatrix, ExampleMatrix}

\* the lists of n arcs a node of level n can hold: each arc joins two
\* different cities, no city is left by two arcs and none is entered by two
\* (the arc of a branching is a zero cell of the node's matrix, and
\* includeMatrix closes its row and its column), in any order
ArcLists(n) ==
    {arcs \in [1 .. n -> {<<i, j>> : i, j \in 0 .. (n - 1)} \ {<<i, i>> : i \in 0 .. (n - 1)}] :
        \A a, b \in 1 .. n :
            a # b => arcs[a][1] # arcs[b][1] /\ arcs[a][2] # arcs[b][2]}

\* the branch `if (currentNode.level === n)` of the loop, given the included
\* arcs of currentNode and the incumbent: the incumbent it leaves
LeafBranch(includedArcs, cm, best, path) ==
    LET n            == Len(cm)
        completePath == buildCompletePath(includedArcs)
        tourCost     == calculateTourCost(completePath, cm)
    IN  IF AcceptedLeaf([includedArcs |-> includedArcs], n) /\ tourCost < best
        THEN [bestCost |-> tourCost, bestPath |-> completePath]
        ELSE [bestCost |-> best, bestPath |-> path]

\* the leaf branch is about to be applied, with the incumbent solveTSP
\* starts with, to a list of n arcs of ArcLists; the component is as mounted
LeafInit ==
    /\ costMatrix \in LeafMatrices
    /\ currentStep = "algorithm"
    /\ cities = CityList(Len(costMatrix))
    /\ editorMatrix = <<>>
    /\ units = WholeUnits
    /\ edits = 0
    /\ runs = 0
    /\ appResult = NullResult
    /\ pushed = <<>>
    /\ pc = "idle"
    /\ queue = <<>>
    /\ bestCost = INF
    /\ bestPath = <<>>
    /\ allSteps = <<>>
    /\ stepCounter = 1
    /\ last = NoIteration
    /\ result = NullResult
    /\ steps = <<>>
    /\ currentStepIndex = -1
    /\ isRunning = FALSE
    /\ isAutoPlaying = FALSE
    /\ \E arcs \in ArcLists(Len(costMatrix)) :
           leafCall = [NoLeafCall EXCEPT !.includedArcs = arcs]

\* the leaf branch applied to the arcs given: buildCompletePath, the test
\* `completePath.length === n && !hasCycle(includedArcs)` and the update of
\* the incumbent
LeafTest ==
    /\ ~leafCall.called
    /\ \E out \in {LeafBranch(leafCall.includedArcs, costMatrix,
                              leafCall.bestCost, leafCall.bestPath)} :
           leafCall' = [called       |-> TRUE,
                        includedArcs |-> leafCall.includedArcs,
                        completePath |-> buildCompletePath(leafCall.includedArcs),
                        accepted     |-> AcceptedLeaf(leafCall, Len(costMatrix)),
                        bestCost     |-> out.bestCost,
                        bestPath     |-> out.bestPath]
    /\ UNCHANGED <<costMatrix, pc, queue, bestCost, bestPath, allSteps, stepCounter,
                   last, result, steps, currentStepIndex, isRunning, pushed, appVars,
                   isAutoPlaying>>

LeafNext == LeafTest

LeafSpec == LeafInit /\ [][LeafNext]_vars

\* the n arcs form one cycle through all n cities
HamiltonianCycle(arcs, n) ==
    /\ Len(arcs) = n
    /\ \A a, b \in 1 .. n : a # b => arcs[a][1] # arcs[b][1] /\ arcs[a][2] # arcs[b][2]
    /\ \A k \in 1 .. (n - 1) : 0 \notin WalkOf(arcs, {0}, k)
    /\ WalkOf(arcs, {0}, n) = {0}

\* the cities of a Hamiltonian cycle in the order of the cycle, from city 0
CycleOrder(arcs, n) ==
    [k \in 1 .. n |-> CHOOSE c \in 0 .. (n - 1) : c \in WalkOf(arcs, {0}, k - 1)]

StoredObjects ==
    {"currentNode.matrix", "regretStep.matrix", "regretStep.regrets",
     "reducedExcludeMatrix", "reducedIncludeMatrix", "branchStep.matrix"}

\* the references of the rows of an object
RowsOf(h, name) == {h.objs[name][r] : r \in 1 .. Len(h.objs[name])}

\* C24: an iteration changes no other node of the queue and no step record
\* already in the trace. On the heap, after an iteration that evaluated both
\* children: the matrix of the removed node holds what it held, the matrices
\* of the two children, of the two new step records and the regrets of the
\* 'regret' record share no row with one another nor with the removed node,
\* and each still holds what was stored; the arc lists of the children are
\* those of the parent, with the chosen arc appended where it belongs.
C24_NodesAndRecordsAreValues ==
    [][ ProcessNode =>
          /\ \A other \in Frontier(queue) :
                 other # last'.node => other \in Frontier(queue')
          /\ SubSeq(allSteps', 1, Len(allSteps)) = allSteps
          /\ last'.kind = "branch" =>
               \A h \in {BranchOnHeap(last'.node, last'.arc[1], last'.arc[2])} :
                 /\ ReadHeap(h.heap, h.objs["currentNode.matrix"]) = last'.node.matrix
                 /\ \A a, b \in StoredObjects :
                        a # b => RowsOf(h, a) \cap RowsOf(h, b) = {}
                 /\ ReadHeap(h.heap, h.objs["regretStep.matrix"])
                        = allSteps'[Len(allSteps) + 1].matrix
                 /\ ReadHeap(h.heap, h.objs["regretStep.regrets"])
                        = allSteps'[Len(allSteps) + 1].regrets
                 /\ ReadHeap(h.heap, h.objs["branchStep.matrix"])
                        = allSteps'[Len(allSteps) + 2].matrix
                 /\ last'.pushedExclude =>
                        \E child \in Frontier(queue') \ Frontier(queue) :
                            /\ child.matrix = ReadHeap(h.heap, h.objs["reducedExcludeMatrix"])
                            /\ child.includedArcs = last'.node.includedArcs
                            /\ child.excluded = Append(last'.node.excluded, last'.arc)
                 /\ last'.pushedInclude =>
                        \E child \in Frontier(queue') \ Frontier(queue) :
                            /\ child.matrix = ReadHeap(h.heap, h.objs["reducedIncludeMatrix"])
                            /\ child.includedArcs = Append(last'.node.includedArcs, last'.arc)
                            /\ child.excluded = last'.node.excluded ]_vars

\* an iteration pushed both children while other nodes wait in the queue, and
\* both reductions subtracted something from their copies
C24_Witness ==
    /\ pc = "search" /\ last.kind = "branch"
    /\ last.pushedExclude /\ last.pushedInclude
    /\ Len(queue) >= 4
    /\ \A call \in ReduceCalls : call.output.reduction > 0
    /\ allSteps[Len(allSteps)].matrix # last.node.matrix

\* ---- C25: what the abbreviated copy returns ----

\* path visits every city of cm exactly once
IsTour(path, cm) ==
    /\ Len(path) = Len(cm)
    /\ \A c \in Cities(cm) : \E k \in 1 .. Len(path) : path[k] = c

\* C25 as stated: among the input matrices with as many cities as the one
\* the abbreviated copy has just returned from, there is one for which it
\* returns a path that is not empty and is not a Hamiltonian cycle.
C25_ReturnsInvalidTour ==
    (pc = "returned" /\ ~result.null) =>
        \E cm \in {m \in AbbreviatedMatrices : Len(m) = Len(costMatrix)} :
            \E r \in {abbreviatedSolveTSP(cm)} : r.path # <<>> /\ ~IsTour(r.path, cm)

\* C25, amended: the abbreviated copy never completes a path. At every leaf
\* test at most one city is missing from the node's path, so the test
\* `remainingNodes.length === 2` fails, and the object returned has an empty
\* path and the cost Infinity.
C25_AbbreviatedReturnsNoPath ==
    /\ (pc = "search" /\ last.kind = "leaf") =>
           Len(remainingNodes(last.node.path, Len(costMatrix), 0)) <= 1
    /\ bestPath = <<>> /\ bestCost = Infinity
    /\ (pc = "returned" /\ ~result.null) =>
           result.path = <<>> /\ result.cost = Infinity

\* a leaf test was made on a path that holds a city twice, on four cities
C25_Witness ==
    /\ pc = "search" /\ last.kind = "leaf"
    /\ Len(costMatrix) >= 4
    /\ \E a, b \in 1 .. Len(last.node.path) :
           a # b /\ last.node.path[a] = last.node.path[b]

\* ---- C26: termination ----

\* the number of sentinel cells of a matrix
SentinelCells(m) ==
    Cardinality({<<r, c>> \in (1 .. Len(m)) \X (1 .. Len(m)) : IsSentinel(m[r][c])})

\* C26: every child pushed by an iteration has strictly more sentinel cells
\* than the node it comes from, and a search that has started ends: the
\* queue becomes empty and solveTSP returns a trace closed by the 'final'
\* record.
C26_SearchTerminates ==
    /\ [][ ProcessNode =>
             \A child \in NewNodes(queue, queue') :
                 SentinelCells(child.matrix) > SentinelCells(last'.node.matrix) ]_vars
    /\ (pc = "search") ~>
           (/\ pc = "returned" /\ queue = <<>> /\ allSteps # <<>>
            /\ allSteps[Len(allSteps)].type = "final")

\* a search of more than thirty iterations has returned without an incumbent
C26_Witness ==
    /\ pc = "returned" /\ ~result.null
    /\ bestCost = INF
    /\ Len(costMatrix) >= 3
    /\ Len(allSteps) > 60

\* ---- C27: the shape of the nodes of the queue ----

\* C27: for every node of the queue, level is the number of included arcs,
\* no two included arcs leave the same city and no two enter the same city,
\* no arc is both included and excluded, and the row of the from-city and
\* the column of the to-city of every included arc hold only sentinels in
\* the node's matrix.
C27_NodeStructure ==
    \A node \in Frontier(queue) :
        /\ node.level = Len(node.includedArcs)
        /\ \A a, b \in 1 .. Len(node.includedArcs) :
               a # b => /\ node.includedArcs[a][1] # node.includedArcs[b][1]
                        /\ node.includedArcs[a][2] # node.includedArcs[b][2]
        /\ \A a \in 1 .. Len(node.includedArcs) :
               /\ \A e \in 1 .. Len(node.excluded) :
                      node.includedArcs[a] # node.excluded[e]
               /\ \A k \in Cities(node.matrix) :
                      /\ IsSentinel(Cell(node.matrix, node.includedArcs[a][1], k))
                      /\ IsSentinel(Cell(node.matrix, k, node.includedArcs[a][2]))

\* a node with two included arcs and an excluded arc waits in the queue
C27_Witness ==
    \E node \in Frontier(queue) :
        /\ Len(node.includedArcs) >= 2
        /\ Len(node.excluded) >= 1

\* ---- C28: best-first order and the incumbent ----

\* C28: the bound of the node removed by an iteration is at least the bound
\* of the node removed by the iteration before it; bestCost never grows, and
\* it changes only in an iteration that removes a node of level n, to a
\* strictly smaller value.
C28_BestFirstOrder ==
    [][ /\ (ProcessNode /\ last.kind # "none") => last'.bound >= last.bound
        /\ bestCost' <= bestCost
        /\ bestCost' # bestCost =>
               /\ ProcessNode
               /\ last'.kind = "leaf"
               /\ last'.level = Len(costMatrix)
               /\ bestCost' < bestCost ]_vars

\* a node was removed whose bound is above the bound of the node removed
\* before it, after some twenty iterations
C28_Witness ==
    /\ pc = "search"
    /\ last.kind = "branch"
    /\ last.bound > RootBound
    /\ Len(queue) >= 3
    /\ Len(allSteps) > 20

\* ---- C29: what playback hands to onComplete ----

\* C29: whenever a result is handed to onComplete (the App stores it), its
\* path and its cost are those solveTSP computes for the current costMatrix,
\* and playback stands at the last step of the trace.
C29_OnCompleteGetsSolveTSPResult ==
    [][ appResult' # appResult =>
            \A r \in {solveTSP(costMatrix)} :
                /\ ~r.null
                /\ appResult'.path = r.path
                /\ appResult'.cost = r.cost
                /\ steps # <<>>
                /\ currentStepIndex = Len(steps) - 1 ]_vars

\* ---- C30: the result the App shows ----

\* C30: on the result step the stored result is the one solveTSP computes
\* for the current costMatrix (its trace is the trace of that matrix) and
\* its path holds only indices of existing cities; and the matrix and
\* algorithm steps are shown only with at least 3 cities and a costMatrix of
\* as many rows.
C30_WizardConsistency ==
    /\ (currentStep = "result" /\ ~appResult.null) =>
           /\ appResult.steps = solveTSP(costMatrix).steps
           /\ units.result = units.cost
           /\ \A k \in 1 .. Len(appResult.path) :
                  appResult.path[k] \in 0 .. (Len(cities) - 1)
    /\ currentStep \in {"matrix", "algorithm"} =>
           /\ Len(cities) >= MIN_CITIES
           /\ Len(costMatrix) = Len(cities)

====
